---- MODULE Spec2Model ----
(***************************************************************************)
(* Model of the apptrail agent: the workload reconciliation state machine  *)
(* (internal/reconciler/workload_reconciler.go), the workload adapters     *)
(* (internal/reconciler/workload.go) and the per-event publisher queue     *)
(* (internal/hooks/notifications.go).                                      *)
(*                                                                         *)
(* Time is counted in whole minutes; 0 stands for the zero time.Time.      *)
(* The cluster object handed to a pass is an input of the pass: the watch  *)
(* cache can hold any object when the pass reads it.                       *)
(***************************************************************************)
EXTENDS Integers, Sequences, FiniteSets, TLC

VARIABLES
    now,               \* wall clock, in minutes
    watched,           \* the workload keys that receive notifications
    workloadVersions,  \* WorkloadReconciler.workloadVersions : key -> AppVersion
    workloadPhases,    \* WorkloadReconciler.workloadPhases   : key -> last sent phase
    crd,               \* WorkloadRolloutState objects, by object name
    gauge,             \* appVersionGauge series, by (namespace, workload, kind)
    passPc,            \* key -> position of the in-flight pass of that key
    wrMu,              \* WorkloadReconciler.mu: the passes that hold it, with the mode
    sending,           \* key -> the WorkloadUpdate the pass of that key is sending
    publisherChan,     \* the buffered channel of WorkloadUpdate
    consumerCur,       \* the update the Loop is publishing
    pubIdx,            \* index of the next publisher the Loop calls
    emitted,           \* the updates sent on publisherChan, in send order
    delivered,         \* publisher index -> the updates passed to its Publish
    lastPass,          \* locals and result of the most recent pass
    lastPublishErr,    \* whether the most recent Publish call returned an error
    eventChan,         \* the buffered channel of ResourceEventPayload
    eventSeq,          \* number of resource events the node/pod passes produced
    dropLog,           \* the events logged as dropped by publishEvent
    loopPc,            \* position of ResourceEventPublisherQueue.Loop
    inHand,            \* the event Loop received and passes to addEvent
    buffer,            \* ResourceEventPublisherQueue.buffer
    timer,             \* ResourceEventPublisherQueue.timer: "nil", "armed", "expired"
    callbacks,         \* timer callbacks that fired and have not run flush yet
    mu,                \* holder of ResourceEventPublisherQueue.mu
    flushEvents,       \* the copy of the buffer flushLocked is publishing
    flushIdx,          \* index of the next batch publisher flushLocked calls
    batches,           \* batch publisher index -> the batches passed to PublishBatch
    cluster,           \* pod or node -> whether the API server never had it, has it, or lost it
    podStates,         \* PodReconciler.podStates
    nodeStates,        \* NodeReconciler.nodeStates
    resourceLog        \* the events the pod and node passes built, sent or dropped

workloadVars == <<now, watched, workloadVersions, workloadPhases, crd, gauge, passPc, wrMu,
                  sending, publisherChan, consumerCur, pubIdx, emitted, delivered,
                  lastPass, lastPublishErr>>

resourceVars == <<eventChan, eventSeq, dropLog, loopPc, inHand, buffer, timer,
                  callbacks, mu, flushEvents, flushIdx, batches>>

infraVars == <<cluster, podStates, nodeStates, resourceLog>>

vars == <<now, watched, workloadVersions, workloadPhases, crd, gauge, passPc, wrMu,
          sending, publisherChan, consumerCur, pubIdx, emitted, delivered,
          lastPass, lastPublishErr, eventChan, eventSeq, dropLog, loopPc, inHand,
          buffer, timer, callbacks, mu, flushEvents, flushIdx, batches,
          cluster, podStates, nodeStates, resourceLog>>

(***************************************************************************)
(* Bounds                                                                  *)
(***************************************************************************)
MaxTime == 17
QueueCap == 2
NumPublishers == 2

MaxEvents == QueueCap + 1

\* Capacity of the resource event channel (1000 in main), BatchConfig.MaxBatchSize
\* (100 by default), number of batch publishers, and number of resource
\* events the node and pod passes produce.
ResourceCap == 2
MaxBatchSize == 2
NumBatchPublishers == 2
MaxResourceEvents == 4

(***************************************************************************)
(* Program constants                                                       *)
(***************************************************************************)
RolloutTimeout == 15
RequeueAfterMinutes == 1

phaseRollingOut == "rolling_out"
phaseFailed == "failed"
phaseSuccess == "success"
phaseProgressing == "progressing"

Phases == {phaseRollingOut, phaseFailed, phaseSuccess, phaseProgressing}

\* The instants at which the clock is sampled: the first minute and every
\* minute from the 15-minute budget after it on.
Instants == {t \in 1..MaxTime : t = 1 \/ t >= RolloutTimeout + 1}

Versions == {"1.0.0", "1.1.0"}
NilReplicas == -1

Publishers == 1..NumPublishers

BatchPublishers == 1..NumBatchPublishers

\* The pods and the node of the cluster: a pod of a watched namespace, a pod
\* of an excluded one, and a node (the request of a node has an empty
\* namespace).
PodKeys == {[namespace |-> "prod", name |-> "api"],
            [namespace |-> "kube-system", name |-> "dns"]}

NodeKeys == {[namespace |-> "", name |-> "node-1"]}

InfraResources == PodKeys \cup NodeKeys

(***************************************************************************)
(* Workload keys. Namespace and name are sequences of dash-free segments   *)
(* (the string is the segments joined by "-").                             *)
(***************************************************************************)
Kinds == {"Deployment", "StatefulSet", "DaemonSet"}

AllKeys == {[namespace |-> <<"prod">>, name |-> <<"web">>, kind |-> kd] : kd \in Kinds}

ToLower(kd) ==
    CASE kd = "Deployment" -> "deployment"
      [] kd = "StatefulSet" -> "statefulset"
      [] kd = "DaemonSet" -> "daemonset"

\* fmt.Sprintf("%s-%s-%s", namespace, name, strings.ToLower(kind))
StateName(k) == k.namespace \o k.name \o <<ToLower(k.kind)>>

StateNames == {StateName(k) : k \in AllKeys}

(***************************************************************************)
(* Cluster objects and the adapters over them                              *)
(***************************************************************************)
NoCondition == [status |-> "", reason |-> ""]

\* The Progressing condition of a Deployment: absent, healthy, or failed.
ProgressingConditions ==
    { NoCondition,
      [status |-> "True", reason |-> "NewReplicaSetAvailable"],
      [status |-> "False", reason |-> "ProgressDeadlineExceeded"] }

\* Status counters (total, ready, updated): ready behind, updated behind,
\* converged, and ready ahead of the total.
Statuses ==
    { [replicas |-> 3, ready |-> 1, updated |-> 3],
      [replicas |-> 3, ready |-> 3, updated |-> 1],
      [replicas |-> 3, ready |-> 3, updated |-> 3],
      [replicas |-> 1, ready |-> 3, updated |-> 1] }

Object(kd, version, specReplicas, st, cond) ==
    [kind |-> kd, version |-> version, specReplicas |-> specReplicas,
     replicas |-> st.replicas, ready |-> st.ready, updated |-> st.updated,
     progressing |-> cond]

Deployments ==
    {Object("Deployment", v, NilReplicas, st, c) :
        v \in Versions \cup {""}, st \in Statuses, c \in ProgressingConditions}

StatefulSets ==
    {Object("StatefulSet", v, r, st, NoCondition) :
        v \in Versions \cup {""}, r \in {NilReplicas, 3}, st \in Statuses}

DaemonSets ==
    {Object("DaemonSet", v, NilReplicas, st, NoCondition) :
        v \in Versions \cup {""}, st \in Statuses}

ObjectsOf(k) ==
    CASE k.kind = "Deployment" -> Deployments
      [] k.kind = "StatefulSet" -> StatefulSets
      [] k.kind = "DaemonSet" -> DaemonSets

GetVersion(o) == o.version

GetTotalReplicas(o) == o.replicas

GetReadyReplicas(o) == o.ready

GetUpdatedReplicas(o) == o.updated

\* Variant: the counters are compared with the declared replica count.
DeploymentIsRollingOutDeclared(o) ==
    o.updated < o.specReplicas \/ o.ready < o.specReplicas

DeploymentIsRollingOut(o) == o.updated < o.replicas \/ o.ready < o.replicas

StatefulSetIsRollingOut(o) ==
    IF o.specReplicas = NilReplicas
    THEN FALSE
    ELSE o.updated < o.specReplicas \/ o.ready < o.specReplicas

DaemonSetIsRollingOut(o) == o.updated < o.replicas \/ o.ready < o.replicas

IsRollingOut(o) ==
    CASE o.kind = "Deployment" -> DeploymentIsRollingOut(o)
      [] o.kind = "StatefulSet" -> StatefulSetIsRollingOut(o)
      [] o.kind = "DaemonSet" -> DaemonSetIsRollingOut(o)

DeploymentHasFailed(o) ==
    /\ o.progressing # NoCondition
    /\ \/ o.progressing.status = "False"
       \/ o.progressing.reason = "ProgressDeadlineExceeded"

\* Variant: the conditions are read for every kind.
HasFailedOfAnyKind(o) == DeploymentHasFailed(o)

HasFailed(o) ==
    CASE o.kind = "Deployment" -> DeploymentHasFailed(o)
      [] o.kind = "StatefulSet" -> FALSE
      [] o.kind = "DaemonSet" -> FALSE

(***************************************************************************)
(* In-memory and persisted records                                         *)
(***************************************************************************)
ZeroAppVersion == [PreviousVersion |-> "", CurrentVersion |-> "", RolloutStarted |-> 0]

ZeroRolloutState ==
    [RolloutStarted |-> 0, LastSentVersion |-> "", LastSentPhase |-> "", LastSentAt |-> 0]

NoRecord == [exists |-> FALSE]

NoEvent == [Kind |-> "none"]

NoPass == [outcome |-> "none"]

WorkloadUpdate(k, previousVersion, currentVersion, phase) ==
    [Name |-> k.name, Namespace |-> k.namespace, Kind |-> k.kind,
     PreviousVersion |-> previousVersion, CurrentVersion |-> currentVersion,
     DeploymentPhase |-> phase]

(***************************************************************************)
(* Initial state: a freshly started process, an empty store, one watched   *)
(* workload of any of the three kinds.                                     *)
(***************************************************************************)
Init ==
    /\ now = 1
    /\ wrMu = {}
    /\ watched \in {{k} : k \in AllKeys}
    /\ workloadVersions = [k \in AllKeys |-> ZeroAppVersion]
    /\ workloadPhases = [k \in AllKeys |-> ""]
    /\ crd = [n \in StateNames |-> NoRecord]
    /\ gauge = [k \in AllKeys |-> {}]
    /\ passPc = [k \in AllKeys |-> "idle"]
    /\ sending = [k \in AllKeys |-> NoEvent]
    /\ publisherChan = <<>>
    /\ consumerCur = NoEvent
    /\ pubIdx = 1
    /\ emitted = <<>>
    /\ delivered = [p \in Publishers |-> <<>>]
    /\ lastPass = NoPass
    /\ lastPublishErr = FALSE
    /\ eventChan = <<>>
    /\ eventSeq = 0
    /\ dropLog = <<>>
    /\ loopPc = "recv"
    /\ inHand = NoEvent
    /\ buffer = <<>>
    /\ timer = "nil"
    /\ callbacks = 0
    /\ mu = "free"
    /\ flushEvents = <<>>
    /\ flushIdx = 1
    /\ batches = [p \in BatchPublishers |-> <<>>]
    /\ cluster = [r \in InfraResources |-> "absent"]
    /\ podStates = <<>>
    /\ nodeStates = <<>>
    /\ resourceLog = <<>>

(***************************************************************************)
(* determineWorkloadPhase: rolloutStarted is the RolloutStarted of the     *)
(* in-memory entry of the key, t the current time.                         *)
(***************************************************************************)
\* Variant: the rollout is tested before the failure condition.
determineWorkloadPhaseRollingOutFirst(o, rolloutStarted, t) ==
    IF IsRollingOut(o)
    THEN IF rolloutStarted # 0 /\ t - rolloutStarted > RolloutTimeout
         THEN phaseFailed
         ELSE phaseRollingOut
    ELSE IF HasFailed(o)
         THEN phaseFailed
         ELSE IF GetReadyReplicas(o) = GetTotalReplicas(o)
                 /\ GetUpdatedReplicas(o) = GetTotalReplicas(o)
              THEN phaseSuccess
              ELSE phaseProgressing

determineWorkloadPhase(o, rolloutStarted, t) ==
    IF HasFailed(o)
    THEN phaseFailed
    ELSE IF IsRollingOut(o)
         THEN IF rolloutStarted # 0 /\ t - rolloutStarted > RolloutTimeout
              THEN phaseFailed
              ELSE phaseRollingOut
         ELSE IF GetReadyReplicas(o) = GetTotalReplicas(o)
                 /\ GetUpdatedReplicas(o) = GetTotalReplicas(o)
              THEN phaseSuccess
              ELSE phaseProgressing

(***************************************************************************)
(* The persisted store                                                     *)
(***************************************************************************)
loadFullRolloutStateFromCRD(k) ==
    LET state == crd[StateName(k)]
    IN  IF state.exists
        THEN [RolloutStarted |-> state.RolloutStarted,
              LastSentVersion |-> state.LastSentVersion,
              LastSentPhase |-> state.LastSentPhase,
              LastSentAt |-> state.LastSentAt]
        ELSE ZeroRolloutState

\* The store after saveFullRolloutStateToCRD returned nil (create, or update
\* of the existing object).
\* Variant: Create only; an existing object is left as it is.
saveFullRolloutStateToCRDCreateOnly(k, version, rolloutStarted, lastSentVersion, lastSentPhase) ==
    IF crd[StateName(k)].exists
    THEN crd
    ELSE [crd EXCEPT ![StateName(k)] =
            [exists |-> TRUE,
             WorkloadNamespace |-> k.namespace, WorkloadName |-> k.name,
             WorkloadKind |-> k.kind,
             Version |-> version, RolloutStarted |-> rolloutStarted,
             LastSentVersion |-> lastSentVersion, LastSentPhase |-> lastSentPhase,
             LastSentAt |-> now]]

saveFullRolloutStateToCRD(k, version, rolloutStarted, lastSentVersion, lastSentPhase) ==
    [crd EXCEPT ![StateName(k)] =
        [exists |-> TRUE,
         WorkloadNamespace |-> k.namespace, WorkloadName |-> k.name,
         WorkloadKind |-> k.kind,
         Version |-> version, RolloutStarted |-> rolloutStarted,
         LastSentVersion |-> lastSentVersion, LastSentPhase |-> lastSentPhase,
         LastSentAt |-> now]]

\* Variant: the delete leaves the object in the store.
deleteRolloutStateFromCRDKept(k) == crd

\* The store after deleteRolloutStateFromCRD returned nil.
deleteRolloutStateFromCRD(k) == [crd EXCEPT ![StateName(k)] = NoRecord]

(***************************************************************************)
(* refreshWorkloadMetrics: DeletePartialMatch on (namespace, workload,     *)
(* kind), then one new series.                                             *)
(***************************************************************************)
refreshWorkloadMetrics(k, previousVersion, currentVersion) ==
    [gauge EXCEPT ![k] =
        {[previous_version |-> previousVersion, current_version |-> currentVersion,
          last_updated |-> now]}]

(***************************************************************************)
(* The record of a pass: what it read, what it resolved, what it did.      *)
(***************************************************************************)
PassRecord(k, o, started, phase, outcome, event, requeue, saveCalled) ==
    [key |-> k, version |-> GetVersion(o), hasFailed |-> HasFailed(o),
     isRollingOut |-> IsRollingOut(o),
     converged |-> (GetReadyReplicas(o) = GetTotalReplicas(o)
                    /\ GetUpdatedReplicas(o) = GetTotalReplicas(o)),
     timer |-> started, phase |-> phase, outcome |-> outcome,
     event |-> event, requeue |-> requeue, saveCalled |-> saveCalled]

\* Events sent or about to be sent by this process.
EventsInFlight == Len(emitted) + Cardinality({k \in AllKeys : sending[k] # NoEvent})

\* Variant: a pass requeues for every phase that is not final.
RequeueForUnfinished(phase) ==
    IF phase \in {phaseRollingOut, phaseProgressing} THEN RequeueAfterMinutes ELSE 0

\* Variant: no pass asks for a requeue.
RequeueForNever(phase) == 0

\* ctrl.Result of a pass that resolved phase: RequeueAfter in minutes, 0 for none.
RequeueFor(phase) == IF phase = phaseRollingOut THEN RequeueAfterMinutes ELSE 0

(***************************************************************************)
(* The decisions of ReconcileWorkload                                      *)
(***************************************************************************)
\* Variant: the label check is missing.
missingVersionLabelIgnored(versionLabel) == FALSE

\* versionLabel == "": the pass returns before it touches any state.
missingVersionLabel(versionLabel) == versionLabel = ""

\* The in-memory entry after the CRD state was loaded.
restoreRolloutStarted(stored, crdState) ==
    IF crdState.RolloutStarted # 0
    THEN [stored EXCEPT !.RolloutStarted = crdState.RolloutStarted]
    ELSE stored

\* The last sent phase after the CRD state was loaded.
restoreLastPhase(lastPhase, crdState) ==
    IF crdState.LastSentPhase # "" /\ lastPhase = ""
    THEN crdState.LastSentPhase
    ELSE lastPhase

\* Variant: the guard is missing.
isDuplicateNever(crdState, versionLabel, currentPhase) == FALSE

\* The restart deduplication guard.
isDuplicate(crdState, versionLabel, currentPhase) ==
    /\ crdState.LastSentVersion # ""
    /\ crdState.LastSentVersion = versionLabel
    /\ crdState.LastSentPhase = currentPhase

\* Variant: the deduplication branch leaves the in-memory entry as it was.
seedFromCRDSkipped(stored, crdState, versionLabel) == stored

\* The in-memory entry written by the deduplication branch.
seedFromCRD(stored, crdState, versionLabel) ==
    IF stored.CurrentVersion # versionLabel
    THEN [stored EXCEPT !.CurrentVersion = versionLabel,
                        !.PreviousVersion = crdState.LastSentVersion]
    ELSE stored

\* Variant: the timer is started again by every pass that resolves
\* rolling_out.
trackRolloutTimingRestarted(stored, currentPhase, t) ==
    IF currentPhase = phaseRollingOut
    THEN [stored EXCEPT !.RolloutStarted = t]
    ELSE IF stored.RolloutStarted # 0
         THEN [stored EXCEPT !.RolloutStarted = 0]
         ELSE stored

\* Rollout timing: start the timer on entering rolling_out, clear it on leaving.
trackRolloutTiming(stored, currentPhase, t) ==
    IF currentPhase = phaseRollingOut /\ stored.RolloutStarted = 0
    THEN [stored EXCEPT !.RolloutStarted = t]
    ELSE IF currentPhase # phaseRollingOut /\ stored.RolloutStarted # 0
         THEN [stored EXCEPT !.RolloutStarted = 0]
         ELSE stored

\* Variant: every pass that is not a duplicate sends.
shouldPublishAlways(versionChanged, phaseChanged) == TRUE

\* Send event if version changed OR phase changed.
shouldPublish(versionChanged, phaseChanged) == versionChanged \/ phaseChanged

\* Variant: the previous version is taken from the label, not from the entry.
updateVersionTrackingPreviousLost(stored, versionChanged, versionLabel) ==
    IF versionChanged
    THEN [PreviousVersion |-> versionLabel,
          CurrentVersion |-> versionLabel,
          RolloutStarted |-> stored.RolloutStarted]
    ELSE stored

\* The version tracking entry of a pass that publishes.
updateVersionTracking(stored, versionChanged, versionLabel) ==
    IF versionChanged
    THEN [PreviousVersion |-> stored.CurrentVersion,
          CurrentVersion |-> versionLabel,
          RolloutStarted |-> stored.RolloutStarted]
    ELSE stored

\* Variant: a pass whose save failed returns before the send.
sendAfterSaveAborted(update, saveErr) == IF saveErr THEN NoEvent ELSE update

\* The update handed to publisherChan after the save: a save error is logged
\* and the pass goes on to the send.
sendAfterSave(update, saveErr) == update

(***************************************************************************)
(* ReconcileWorkload, up to the send on publisherChan. o is the object the *)
(* pass read, loadErr and saveErr tell whether the store calls fail.       *)
(***************************************************************************)
ReconcileWorkload(k, o, loadErr, saveErr) ==
    LET stored0 == workloadVersions[k]
        lastPhase0 == workloadPhases[k]
        versionLabel == GetVersion(o)
        loaded == stored0.RolloutStarted = 0 /\ ~loadErr
        crdState == IF loaded THEN loadFullRolloutStateFromCRD(k) ELSE ZeroRolloutState
        stored1 == restoreRolloutStarted(stored0, crdState)
        lastPhase == restoreLastPhase(lastPhase0, crdState)
        currentPhase == determineWorkloadPhase(o, stored1.RolloutStarted, now)
        versionChanged == stored1.CurrentVersion # versionLabel
        phaseChanged == lastPhase # currentPhase
        duplicate == isDuplicate(crdState, versionLabel, currentPhase)
        \* restart dedup branch
        metricPrevious == IF stored1.PreviousVersion = ""
                          THEN crdState.LastSentVersion
                          ELSE stored1.PreviousVersion
        storedDup == seedFromCRD(stored1, crdState, versionLabel)
        \* rollout timing
        stored2 == trackRolloutTiming(stored1, currentPhase, now)
        needsPersistence == currentPhase = phaseRollingOut /\ stored1.RolloutStarted = 0
        stored3 == updateVersionTracking(stored2, versionChanged, versionLabel)
        update == WorkloadUpdate(k, stored3.PreviousVersion, versionLabel, currentPhase)
        saved == saveFullRolloutStateToCRD(k, versionLabel, stored3.RolloutStarted,
                                           versionLabel, currentPhase)
    IN  /\ k \in watched
        /\ passPc[k] = "idle"
        /\ o \in ObjectsOf(k)
        /\ loadErr => stored0.RolloutStarted = 0
        /\ UNCHANGED <<now, watched, wrMu, publisherChan, consumerCur, pubIdx,
                       lastPublishErr>>
        /\ IF missingVersionLabel(versionLabel)
           THEN /\ ~loadErr /\ ~saveErr
                /\ lastPass' = PassRecord(k, o, stored0.RolloutStarted, "", "skipped",
                                          NoEvent, 0, FALSE)
                /\ UNCHANGED <<workloadVersions, workloadPhases, crd, gauge,
                               passPc, sending>>
           ELSE IF duplicate
           THEN /\ ~saveErr
                /\ gauge' = refreshWorkloadMetrics(k, metricPrevious, versionLabel)
                /\ workloadVersions' = [workloadVersions EXCEPT ![k] = storedDup]
                /\ workloadPhases' = [workloadPhases EXCEPT ![k] = currentPhase]
                /\ lastPass' = PassRecord(k, o, stored1.RolloutStarted, currentPhase,
                                          "suppressed", NoEvent,
                                          RequeueFor(currentPhase), FALSE)
                /\ UNCHANGED <<crd, passPc, sending>>
           ELSE IF shouldPublish(versionChanged, phaseChanged)
           THEN /\ workloadVersions' = [workloadVersions EXCEPT ![k] = stored3]
                /\ gauge' = IF versionChanged
                            THEN refreshWorkloadMetrics(k, stored3.PreviousVersion,
                                                        versionLabel)
                            ELSE gauge
                /\ workloadPhases' = [workloadPhases EXCEPT ![k] = currentPhase]
                /\ crd' = IF saveErr THEN crd ELSE saved
                /\ sending' = [sending EXCEPT ![k] = sendAfterSave(update, saveErr)]
                /\ passPc' = [passPc EXCEPT ![k] = "send"]
                /\ lastPass' = PassRecord(k, o, stored1.RolloutStarted, currentPhase,
                                          "emitted", update,
                                          RequeueFor(currentPhase), TRUE)
           ELSE /\ saveErr => needsPersistence
                /\ workloadVersions' = [workloadVersions EXCEPT ![k] = stored1]
                /\ workloadPhases' = [workloadPhases EXCEPT ![k] = lastPhase]
                /\ crd' = IF needsPersistence /\ ~saveErr THEN saved ELSE crd
                /\ lastPass' = PassRecord(k, o, stored1.RolloutStarted, currentPhase,
                                          "quiet", NoEvent,
                                          RequeueFor(currentPhase), needsPersistence)
                /\ UNCHANGED <<gauge, passPc, sending>>

(***************************************************************************)
(* Reconcile on a not-found object: HandleDeletion.                        *)
(***************************************************************************)
HandleDeletion(k, deleteErr) ==
    /\ k \in watched
    /\ passPc[k] = "idle"
    /\ crd' = IF deleteErr THEN crd ELSE deleteRolloutStateFromCRD(k)
    /\ lastPass' = [key |-> k, version |-> "", hasFailed |-> FALSE,
                    isRollingOut |-> FALSE, converged |-> FALSE,
                    timer |-> workloadVersions[k].RolloutStarted,
                    phase |-> "", outcome |-> "deleted", event |-> NoEvent,
                    requeue |-> 0, saveCalled |-> FALSE]
    /\ UNCHANGED <<now, watched, wrMu, workloadVersions, workloadPhases, gauge, passPc,
                   sending, publisherChan, consumerCur, pubIdx, lastPublishErr>>

\* Variant: a send that finds the buffer full gives the update up.
SendWorkloadUpdateNonBlocking(k) ==
    /\ passPc[k] \in {"send", "blocked"}
    /\ publisherChan' = IF Len(publisherChan) < QueueCap
                        THEN Append(publisherChan, sending[k])
                        ELSE publisherChan
    /\ sending' = [sending EXCEPT ![k] = NoEvent]
    /\ passPc' = [passPc EXCEPT ![k] = "idle"]
    /\ UNCHANGED <<now, watched, wrMu, workloadVersions, workloadPhases, crd, gauge,
                   consumerCur, pubIdx, lastPass, lastPublishErr>>

(***************************************************************************)
(* wr.publisherChan <- update. The send completes as soon as the buffer    *)
(* has room; a pass that finds the buffer full parks ("blocked") and       *)
(* completes the send once the Loop has received.                          *)
(***************************************************************************)
SendWorkloadUpdate(k) ==
    /\ passPc[k] \in {"send", "blocked"}
    /\ IF Len(publisherChan) < QueueCap
       THEN /\ publisherChan' = Append(publisherChan, sending[k])
            /\ sending' = [sending EXCEPT ![k] = NoEvent]
            /\ passPc' = [passPc EXCEPT ![k] = "idle"]
       ELSE /\ passPc[k] = "send"
            /\ passPc' = [passPc EXCEPT ![k] = "blocked"]
            /\ UNCHANGED <<publisherChan, sending>>
    /\ UNCHANGED <<now, watched, wrMu, workloadVersions, workloadPhases, crd, gauge,
                   consumerCur, pubIdx, lastPass, lastPublishErr>>

\* Variant: the Loop takes the update sent last.
LoopReceiveNewestFirst ==
    /\ consumerCur = NoEvent
    /\ publisherChan # <<>>
    /\ consumerCur' = publisherChan[Len(publisherChan)]
    /\ publisherChan' = SubSeq(publisherChan, 1, Len(publisherChan) - 1)
    /\ pubIdx' = 1
    /\ UNCHANGED <<now, watched, wrMu, workloadVersions, workloadPhases, crd, gauge,
                   passPc, sending, lastPass, lastPublishErr>>

(***************************************************************************)
(* EventPublisherQueue.Loop                                                *)
(***************************************************************************)
LoopReceive ==
    /\ consumerCur = NoEvent
    /\ publisherChan # <<>>
    /\ consumerCur' = Head(publisherChan)
    /\ publisherChan' = Tail(publisherChan)
    /\ pubIdx' = 1
    /\ UNCHANGED <<now, watched, wrMu, workloadVersions, workloadPhases, crd, gauge,
                   passPc, sending, lastPass, lastPublishErr>>

\* Variant: an error ends the loop over the publishers.
LoopPublishBreaksOnError(err) ==
    /\ consumerCur # NoEvent
    /\ lastPublishErr' = err
    /\ IF pubIdx < NumPublishers /\ ~err
       THEN /\ pubIdx' = pubIdx + 1
            /\ UNCHANGED consumerCur
       ELSE /\ pubIdx' = 1
            /\ consumerCur' = NoEvent
    /\ UNCHANGED <<now, watched, wrMu, workloadVersions, workloadPhases, crd, gauge,
                   passPc, sending, publisherChan, lastPass>>

LoopPublish(err) ==
    /\ consumerCur # NoEvent
    /\ lastPublishErr' = err
    /\ IF pubIdx < NumPublishers
       THEN /\ pubIdx' = pubIdx + 1
            /\ UNCHANGED consumerCur
       ELSE /\ pubIdx' = 1
            /\ consumerCur' = NoEvent
    /\ UNCHANGED <<now, watched, wrMu, workloadVersions, workloadPhases, crd, gauge,
                   passPc, sending, publisherChan, lastPass>>

(***************************************************************************)
(* Environment: the clock, and a restart of the process (all in-memory     *)
(* state is lost, the store is kept).                                      *)
(***************************************************************************)
Tick ==
    /\ \E t \in Instants : t > now /\ now' = t
    /\ UNCHANGED <<watched, wrMu, workloadVersions, workloadPhases, crd, gauge, passPc,
                   sending, publisherChan, consumerCur, pubIdx,
                   lastPass, lastPublishErr>>

Restart ==
    /\ workloadVersions' = [k \in AllKeys |-> ZeroAppVersion]
    /\ workloadPhases' = [k \in AllKeys |-> ""]
    /\ gauge' = [k \in AllKeys |-> {}]
    /\ passPc' = [k \in AllKeys |-> "idle"]
    /\ sending' = [k \in AllKeys |-> NoEvent]
    /\ publisherChan' = <<>>
    /\ consumerCur' = NoEvent
    /\ pubIdx' = 1
    /\ lastPass' = NoPass
    /\ lastPublishErr' = FALSE
    /\ wrMu' = {}
    /\ UNCHANGED <<now, watched, crd>>

(***************************************************************************)
(* Observation of the pipeline: emitted records every completed send on    *)
(* publisherChan, delivered every Publish call.                            *)
(***************************************************************************)
Quiet == UNCHANGED <<emitted, delivered>>

ObserveSend ==
    /\ emitted' = IF Len(publisherChan') = Len(publisherChan) + 1
                  THEN Append(emitted, publisherChan'[Len(publisherChan')])
                  ELSE emitted
    /\ UNCHANGED delivered

ObservePublish ==
    /\ delivered' = [delivered EXCEPT ![pubIdx] = Append(@, consumerCur)]
    /\ UNCHANGED emitted

\* The Loop has published everything that was sent.
PipelineIdle == publisherChan = <<>> /\ consumerCur = NoEvent

(***************************************************************************)
(* Resource events: the node and pod reconcilers send on eventChan without *)
(* blocking, ResourceEventPublisherQueue batches what it receives.         *)
(***************************************************************************)
ResourceTypes == {"pod", "node"}

\* model.ResourceEventPayload, identified by its resource type and the rank
\* of the pass that produced it.
ResourceEvent(r, n) == [Type |-> r, Seq |-> n]

\* Variant: a plain channel send, which waits for room.
publishEventBlocking(r) ==
    /\ eventSeq < MaxResourceEvents
    /\ Len(eventChan) < ResourceCap
    /\ eventSeq' = eventSeq + 1
    /\ eventChan' = Append(eventChan, ResourceEvent(r, eventSeq + 1))
    /\ UNCHANGED <<dropLog, loopPc, inHand, buffer, timer, callbacks, mu, flushEvents,
                   flushIdx, batches>>

\* PodReconciler.publishEvent / NodeReconciler.publishEvent: select with a
\* default case.
publishEvent(r) ==
    /\ eventSeq < MaxResourceEvents
    /\ eventSeq' = eventSeq + 1
    /\ IF Len(eventChan) < ResourceCap
       THEN /\ eventChan' = Append(eventChan, ResourceEvent(r, eventSeq + 1))
            /\ UNCHANGED dropLog
       ELSE /\ dropLog' = Append(dropLog, ResourceEvent(r, eventSeq + 1))
            /\ UNCHANGED eventChan
    /\ UNCHANGED <<loopPc, inHand, buffer, timer, callbacks, mu, flushEvents,
                   flushIdx, batches>>

\* Loop: case event, ok := <-q.eventChan
LoopTake ==
    /\ loopPc = "recv"
    /\ eventChan # <<>>
    /\ inHand' = Head(eventChan)
    /\ eventChan' = Tail(eventChan)
    /\ loopPc' = "addEvent"
    /\ UNCHANGED <<eventSeq, dropLog, buffer, timer, callbacks, mu, flushEvents,
                   flushIdx, batches>>

\* Variant: the batch is flushed once it holds more than MaxBatchSize events.
addEventFlushesLate ==
    LET appended == Append(buffer, inHand)
    IN  /\ loopPc = "addEvent"
        /\ mu = "free"
        /\ inHand' = NoEvent
        /\ IF Len(appended) > MaxBatchSize
           THEN /\ buffer' = <<>>
                /\ timer' = "nil"
                /\ flushEvents' = appended
                /\ flushIdx' = 1
                /\ mu' = "loop"
                /\ loopPc' = "flush"
           ELSE /\ buffer' = appended
                /\ timer' = IF Len(appended) = 1 THEN "armed" ELSE timer
                /\ loopPc' = "recv"
                /\ UNCHANGED <<flushEvents, flushIdx, mu>>
        /\ UNCHANGED <<eventChan, eventSeq, dropLog, callbacks, batches>>

\* addEvent, from q.mu.Lock() to the unlock, or to the first PublishBatch of
\* the flushLocked it calls when the batch is full.
addEvent ==
    LET appended == Append(buffer, inHand)
    IN  /\ loopPc = "addEvent"
        /\ mu = "free"
        /\ inHand' = NoEvent
        /\ IF Len(appended) >= MaxBatchSize
           THEN /\ buffer' = <<>>
                /\ timer' = "nil"
                /\ flushEvents' = appended
                /\ flushIdx' = 1
                /\ mu' = "loop"
                /\ loopPc' = "flush"
           ELSE /\ buffer' = appended
                /\ timer' = IF Len(appended) = 1 THEN "armed" ELSE timer
                /\ loopPc' = "recv"
                /\ UNCHANGED <<flushEvents, flushIdx, mu>>
        /\ UNCHANGED <<eventChan, eventSeq, dropLog, callbacks, batches>>

\* What started the flush in progress.
FlushTrigger ==
    IF mu = "timer" THEN "timer" ELSE "size"

\* flushLocked: one iteration of the loop over q.publishers; the lock is
\* released by the caller after the last one. An error is logged.
PublishBatch(err) ==
    /\ mu # "free"
    /\ batches' = [batches EXCEPT ![flushIdx] =
                      Append(@, [events |-> flushEvents, trigger |-> FlushTrigger])]
    /\ IF flushIdx < NumBatchPublishers
       THEN /\ flushIdx' = flushIdx + 1
            /\ UNCHANGED <<flushEvents, mu, loopPc>>
       ELSE /\ flushIdx' = 1
            /\ flushEvents' = <<>>
            /\ mu' = "free"
            /\ loopPc' = IF loopPc = "flush" THEN "recv" ELSE loopPc
    /\ UNCHANGED <<eventChan, eventSeq, dropLog, inHand, buffer, timer, callbacks>>

\* The timer of time.AfterFunc expires: its callback starts in a goroutine
\* of its own.
TimerFire ==
    /\ timer = "armed"
    /\ timer' = "expired"
    /\ callbacks' = callbacks + 1
    /\ UNCHANGED <<eventChan, eventSeq, dropLog, loopPc, inHand, buffer, mu,
                   flushEvents, flushIdx, batches>>

\* Variant: the flush leaves the buffer as it is.
flushKeepsBuffer ==
    /\ callbacks > 0
    /\ mu = "free"
    /\ callbacks' = callbacks - 1
    /\ IF buffer = <<>>
       THEN UNCHANGED <<buffer, timer, flushEvents, flushIdx, mu>>
       ELSE /\ buffer' = buffer
            /\ timer' = "nil"
            /\ flushEvents' = buffer
            /\ flushIdx' = 1
            /\ mu' = "timer"
    /\ UNCHANGED <<eventChan, eventSeq, dropLog, loopPc, inHand, batches>>

\* The callback: flush, from q.mu.Lock() to the return on an empty buffer or
\* to the first PublishBatch.
flush ==
    /\ callbacks > 0
    /\ mu = "free"
    /\ callbacks' = callbacks - 1
    /\ IF buffer = <<>>
       THEN UNCHANGED <<buffer, timer, flushEvents, flushIdx, mu>>
       ELSE /\ buffer' = <<>>
            /\ timer' = "nil"
            /\ flushEvents' = buffer
            /\ flushIdx' = 1
            /\ mu' = "timer"
    /\ UNCHANGED <<eventChan, eventSeq, dropLog, loopPc, inHand, batches>>

ResourceQuiet == UNCHANGED <<resourceVars, infraVars>>

WorkloadQuiet == UNCHANGED <<workloadVars, infraVars>>

(***************************************************************************)
(* Spec: the reconciler over a store and publishers that answer every      *)
(* call, with a Loop that keeps up with it (a pass starts when the channel *)
(* is drained).                                                            *)
(***************************************************************************)
Next ==
    \/ \E k \in AllKeys : \E o \in ObjectsOf(k) :
           PipelineIdle /\ ReconcileWorkload(k, o, FALSE, FALSE) /\ Quiet /\ ResourceQuiet
    \/ \E k \in AllKeys : PipelineIdle /\ HandleDeletion(k, FALSE) /\ Quiet /\ ResourceQuiet
    \/ \E k \in AllKeys : SendWorkloadUpdate(k) /\ Quiet /\ ResourceQuiet
    \/ LoopReceive /\ Quiet /\ ResourceQuiet
    \/ LoopPublish(FALSE) /\ Quiet /\ ResourceQuiet
    \/ Tick /\ Quiet /\ ResourceQuiet
    \/ Restart /\ Quiet /\ ResourceQuiet

Spec == Init /\ [][Next]_vars

(***************************************************************************)
(* SpecPipeline: the hand-off from the passes to the Loop within one       *)
(* minute of one process, the Loop running at any speed. The passes read   *)
(* objects of one version; at most MaxEvents updates are produced.         *)
(***************************************************************************)
PipelineObjects(k) == {o \in ObjectsOf(k) : o.version \in {"", "1.0.0"}}

NextPipeline ==
    \/ \E k \in AllKeys : \E o \in PipelineObjects(k) :
           /\ EventsInFlight < MaxEvents
           /\ ReconcileWorkload(k, o, FALSE, FALSE)
           /\ Quiet /\ ResourceQuiet
    \/ \E k \in AllKeys : SendWorkloadUpdate(k) /\ ObserveSend /\ ResourceQuiet
    \/ LoopReceive /\ Quiet /\ ResourceQuiet
    \/ \E err \in BOOLEAN : LoopPublish(err) /\ ObservePublish /\ ResourceQuiet

SpecPipeline == Init /\ [][NextPipeline]_vars

(***************************************************************************)
(* SpecFaults: one process whose store calls can fail: a load, a save or a *)
(* delete returns an error and leaves the store as it was. The workload is *)
(* a DaemonSet: the code after the adapter calls is the same for all kinds.*)
(***************************************************************************)
FaultKeys == {k \in AllKeys : k.kind = "DaemonSet"}

\* The passes of SpecFaults run within the rollout timeout of the first one.
FaultHorizon == RolloutTimeout + 1

NextFaults ==
    \/ \E k \in FaultKeys : \E o \in ObjectsOf(k) : \E loadErr \in BOOLEAN, saveErr \in BOOLEAN :
           PipelineIdle /\ ReconcileWorkload(k, o, loadErr, saveErr)
               /\ Quiet /\ ResourceQuiet
    \/ \E k \in FaultKeys : \E deleteErr \in BOOLEAN :
           PipelineIdle /\ HandleDeletion(k, deleteErr) /\ Quiet /\ ResourceQuiet
    \/ \E k \in AllKeys : SendWorkloadUpdate(k) /\ Quiet /\ ResourceQuiet
    \/ LoopReceive /\ Quiet /\ ResourceQuiet
    \/ LoopPublish(FALSE) /\ Quiet /\ ResourceQuiet
    \/ Tick /\ now' <= FaultHorizon /\ Quiet /\ ResourceQuiet

SpecFaults == Init /\ [][NextFaults]_vars

(***************************************************************************)
(* SpecResources: the node and pod passes, the batching Loop and the       *)
(* timer, in every interleaving. Nothing closes eventChan or calls Stop.   *)
(***************************************************************************)
NextResources ==
    \/ \E r \in ResourceTypes : publishEvent(r) /\ WorkloadQuiet
    \/ LoopTake /\ WorkloadQuiet
    \/ addEvent /\ WorkloadQuiet
    \/ \E err \in BOOLEAN : PublishBatch(err) /\ WorkloadQuiet
    \/ TimerFire /\ WorkloadQuiet
    \/ flush /\ WorkloadQuiet

SpecResources == Init /\ [][NextResources]_vars

(***************************************************************************)
(* SpecBurst: a burst of events that all arrive faster than the flush      *)
(* window: no timer expires before the last event of the burst was added   *)
(* to the buffer, and no event is produced after a timer expired.          *)
(***************************************************************************)
BurstArrived == eventChan = <<>> /\ loopPc = "recv"

BurstOver ==
    \/ timer = "expired"
    \/ callbacks > 0
    \/ mu = "timer"
    \/ \E i \in 1..Len(batches[1]) : batches[1][i].trigger = "timer"

NextBurst ==
    \/ \E r \in ResourceTypes : ~BurstOver /\ publishEvent(r) /\ WorkloadQuiet
    \/ LoopTake /\ WorkloadQuiet
    \/ addEvent /\ WorkloadQuiet
    \/ \E err \in BOOLEAN : PublishBatch(err) /\ WorkloadQuiet
    \/ BurstArrived /\ TimerFire /\ WorkloadQuiet
    \/ flush /\ WorkloadQuiet

SpecBurst == Init /\ [][NextBurst]_vars

(***************************************************************************)
(* SpecRequeue: watch notifications until the first pass that sees the     *)
(* label, then only the passes the controller runs because the last pass   *)
(* asked for a requeue, on a workload that stays rolling out. The          *)
(* controller honours RequeueAfter, the clock advances and the Loop        *)
(* goroutine runs.                                                         *)
(***************************************************************************)
\* No update was produced yet: the workload has not been seen with its label.
NothingSentYet == EventsInFlight = 0

\* The objects a requeued pass of key k can read: the version is the one
\* last seen, the rollout goes on and no failure is reported.
RollingObjects(k) ==
    {o \in ObjectsOf(k) : /\ GetVersion(o) = workloadVersions[k].CurrentVersion
                          /\ IsRollingOut(o)
                          /\ ~HasFailed(o)}

\* A pass started by a watch notification.
NotifiedPass(k) ==
    \E o \in ObjectsOf(k) :
        /\ NothingSentYet
        /\ ReconcileWorkload(k, o, FALSE, FALSE)

\* A pass started by the RequeueAfter of the pass before it.
RequeuedPass(k) ==
    \E o \in RollingObjects(k) :
        /\ lastPass.outcome # "none"
        /\ lastPass.key = k
        /\ lastPass.requeue = RequeueAfterMinutes
        /\ ReconcileWorkload(k, o, FALSE, FALSE)

RequeuedPasses == \E k \in AllKeys : RequeuedPass(k) /\ Quiet /\ ResourceQuiet

Sends == \E k \in AllKeys : SendWorkloadUpdate(k) /\ ObserveSend /\ ResourceQuiet

Receives == LoopReceive /\ Quiet /\ ResourceQuiet

Publishes == LoopPublish(FALSE) /\ Quiet /\ ResourceQuiet

Ticks == Tick /\ Quiet /\ ResourceQuiet

NextRequeue ==
    \/ \E k \in AllKeys : NotifiedPass(k) /\ Quiet /\ ResourceQuiet
    \/ RequeuedPasses
    \/ Sends
    \/ Receives
    \/ Publishes
    \/ Ticks

SpecRequeue ==
    /\ Init
    /\ [][NextRequeue]_vars
    /\ WF_vars(RequeuedPasses)
    /\ WF_vars(Sends)
    /\ WF_vars(Receives)
    /\ WF_vars(Publishes)
    /\ WF_vars(Ticks)

(***************************************************************************)
(* SpecDashed: one process watching two DaemonSets whose namespaces and    *)
(* names contain dashes, a-b/c and a/b-c, each at one version.             *)
(***************************************************************************)
DashedKeys ==
    { [namespace |-> <<"a", "b">>, name |-> <<"c">>, kind |-> "DaemonSet"],
      [namespace |-> <<"a">>, name |-> <<"b", "c">>, kind |-> "DaemonSet"] }

InitDashed ==
    /\ now = 1
    /\ wrMu = {}
    /\ watched = DashedKeys
    /\ workloadVersions = [k \in DashedKeys |-> ZeroAppVersion]
    /\ workloadPhases = [k \in DashedKeys |-> ""]
    /\ crd = [n \in {StateName(k) : k \in DashedKeys} |-> NoRecord]
    /\ gauge = [k \in DashedKeys |-> {}]
    /\ passPc = [k \in DashedKeys |-> "idle"]
    /\ sending = [k \in DashedKeys |-> NoEvent]
    /\ publisherChan = <<>>
    /\ consumerCur = NoEvent
    /\ pubIdx = 1
    /\ emitted = <<>>
    /\ delivered = [p \in Publishers |-> <<>>]
    /\ lastPass = NoPass
    /\ lastPublishErr = FALSE
    /\ eventChan = <<>>
    /\ eventSeq = 0
    /\ dropLog = <<>>
    /\ loopPc = "recv"
    /\ inHand = NoEvent
    /\ buffer = <<>>
    /\ timer = "nil"
    /\ callbacks = 0
    /\ mu = "free"
    /\ flushEvents = <<>>
    /\ flushIdx = 1
    /\ batches = [p \in BatchPublishers |-> <<>>]
    /\ cluster = [r \in InfraResources |-> "absent"]
    /\ podStates = <<>>
    /\ nodeStates = <<>>
    /\ resourceLog = <<>>

NextDashed ==
    \/ \E k \in DashedKeys : \E o \in PipelineObjects(k) :
           PipelineIdle /\ ReconcileWorkload(k, o, FALSE, FALSE) /\ Quiet /\ ResourceQuiet
    \/ \E k \in DashedKeys : PipelineIdle /\ HandleDeletion(k, FALSE) /\ Quiet /\ ResourceQuiet
    \/ \E k \in DashedKeys : SendWorkloadUpdate(k) /\ Quiet /\ ResourceQuiet
    \/ LoopReceive /\ Quiet /\ ResourceQuiet
    \/ LoopPublish(FALSE) /\ Quiet /\ ResourceQuiet

SpecDashed == InitDashed /\ [][NextDashed]_vars

(***************************************************************************)
(* SpecGauge: the version gauge at the grain of its two client calls. Here *)
(* gauge is the set of label tuples of appVersionGauge, and the passes of  *)
(* the three kinds run concurrently: the pass of key k records a version   *)
(* change in workloadVersions (passPc "delete"), calls DeletePartialMatch  *)
(* (passPc "set"), then WithLabelValues(...).Set(1).                       *)
(***************************************************************************)
Series(k, previousVersion, currentVersion, t) ==
    [namespace |-> k.namespace, workload |-> k.name, kind |-> k.kind,
     previous_version |-> previousVersion, current_version |-> currentVersion,
     last_updated |-> t]

\* The series of the gauge that carry the labels of key k.
SeriesOf(k) ==
    {s \in gauge : s.namespace = k.namespace /\ s.workload = k.name /\ s.kind = k.kind}

InitGauge ==
    /\ now = 1
    /\ wrMu = {}
    /\ watched = AllKeys
    /\ workloadVersions = [k \in AllKeys |-> ZeroAppVersion]
    /\ workloadPhases = [k \in AllKeys |-> ""]
    /\ crd = [n \in StateNames |-> NoRecord]
    /\ gauge = {}
    /\ passPc = [k \in AllKeys |-> "idle"]
    /\ sending = [k \in AllKeys |-> NoEvent]
    /\ publisherChan = <<>>
    /\ consumerCur = NoEvent
    /\ pubIdx = 1
    /\ emitted = <<>>
    /\ delivered = [p \in Publishers |-> <<>>]
    /\ lastPass = NoPass
    /\ lastPublishErr = FALSE
    /\ eventChan = <<>>
    /\ eventSeq = 0
    /\ dropLog = <<>>
    /\ loopPc = "recv"
    /\ inHand = NoEvent
    /\ buffer = <<>>
    /\ timer = "nil"
    /\ callbacks = 0
    /\ mu = "free"
    /\ flushEvents = <<>>
    /\ flushIdx = 1
    /\ batches = [p \in BatchPublishers |-> <<>>]
    /\ cluster = [r \in InfraResources |-> "absent"]
    /\ podStates = <<>>
    /\ nodeStates = <<>>
    /\ resourceLog = <<>>

\* Variant: the version change goes straight to the new series.
BeginRefreshWithoutDelete(k, versionLabel) ==
    /\ k \in watched
    /\ passPc[k] = "idle"
    /\ workloadVersions[k].CurrentVersion # versionLabel
    /\ workloadVersions' = [workloadVersions EXCEPT ![k] =
                               updateVersionTracking(@, TRUE, versionLabel)]
    /\ passPc' = [passPc EXCEPT ![k] = "set"]
    /\ UNCHANGED <<now, watched, wrMu, workloadPhases, crd, gauge, sending, publisherChan,
                   consumerCur, pubIdx, lastPass, lastPublishErr>>

\* The pass of key k found another version: the in-memory entry is replaced
\* and refreshWorkloadMetrics is called.
BeginRefresh(k, versionLabel) ==
    /\ k \in watched
    /\ passPc[k] = "idle"
    /\ workloadVersions[k].CurrentVersion # versionLabel
    /\ workloadVersions' = [workloadVersions EXCEPT ![k] =
                               updateVersionTracking(@, TRUE, versionLabel)]
    /\ passPc' = [passPc EXCEPT ![k] = "delete"]
    /\ UNCHANGED <<now, watched, wrMu, workloadPhases, crd, gauge, sending, publisherChan,
                   consumerCur, pubIdx, lastPass, lastPublishErr>>

\* Variant: only the series with the labels about to be written is deleted.
DeleteExactMatch(k) ==
    /\ passPc[k] = "delete"
    /\ gauge' = gauge \ {Series(k, workloadVersions[k].PreviousVersion,
                                workloadVersions[k].CurrentVersion, now)}
    /\ passPc' = [passPc EXCEPT ![k] = "set"]
    /\ UNCHANGED <<now, watched, wrMu, workloadVersions, workloadPhases, crd, sending,
                   publisherChan, consumerCur, pubIdx, lastPass, lastPublishErr>>

\* appVersionGauge.DeletePartialMatch(labelsToDelete)
DeletePartialMatch(k) ==
    /\ passPc[k] = "delete"
    /\ gauge' = gauge \ SeriesOf(k)
    /\ passPc' = [passPc EXCEPT ![k] = "set"]
    /\ UNCHANGED <<now, watched, wrMu, workloadVersions, workloadPhases, crd, sending,
                   publisherChan, consumerCur, pubIdx, lastPass, lastPublishErr>>

\* appVersionGauge.WithLabelValues(...).Set(1)
WithLabelValuesSet(k) ==
    /\ passPc[k] = "set"
    /\ gauge' = gauge \cup {Series(k, workloadVersions[k].PreviousVersion,
                                   workloadVersions[k].CurrentVersion, now)}
    /\ passPc' = [passPc EXCEPT ![k] = "idle"]
    /\ UNCHANGED <<now, watched, wrMu, workloadVersions, workloadPhases, crd, sending,
                   publisherChan, consumerCur, pubIdx, lastPass, lastPublishErr>>

NextGauge ==
    \/ \E k \in AllKeys : \E v \in Versions : BeginRefresh(k, v) /\ Quiet /\ ResourceQuiet
    \/ \E k \in AllKeys : DeletePartialMatch(k) /\ Quiet /\ ResourceQuiet
    \/ \E k \in AllKeys : WithLabelValuesSet(k) /\ Quiet /\ ResourceQuiet
    \/ Tick /\ now' <= FaultHorizon /\ Quiet /\ ResourceQuiet

SpecGauge == InitGauge /\ [][NextGauge]_vars

(***************************************************************************)
(* The lock of the maps. ReconcileWorkload at the grain of its Lock,       *)
(* Unlock and outgoing calls: the positions of a pass are the statements   *)
(* of the function that take or release wr.mu, call the store, the gauge   *)
(* or the channel, or branch between them. The branches are taken on data  *)
(* that ReconcileWorkload above computes; here every branch can be taken,  *)
(* so that the passes of this specification include those of the function. *)
(* Passes of different keys interleave between any two positions.          *)
(***************************************************************************)
\* The lock as pass k holds it: "r" under RLock, "w" under Lock.
Hold(k, mode) == [key |-> k, mode |-> mode]

Holds(k) == \E h \in wrMu : h.key = k

\* sync.RWMutex: Lock waits until nobody holds the lock, RLock until no
\* writer does.
CanAcquire(mode) ==
    IF mode = "w" THEN wrMu = {} ELSE \A h \in wrMu : h.mode = "r"

Acquire(k, mode) == wrMu \cup {Hold(k, mode)}

\* Variant: the release is deferred to the return of the function.
ReleaseDeferred(k, mode) == wrMu

\* Unlock, RUnlock.
Release(k, mode) == wrMu \ {Hold(k, mode)}

Step(from, op, to) == [from |-> from, op |-> op, to |-> to]

\* The statements of ReconcileWorkload and determineWorkloadPhase, by line.
PassSteps ==
    { Step("idle", "RLock", "r457"),               \* 457
      Step("r457", "RUnlock", "label"),            \* 458-460
      Step("label", "return", "idle"),             \* 463-467
      Step("label", "branch", "load"),             \* 472, timer unset
      Step("label", "branch", "phase"),            \* 472, timer set
      Step("load", "load", "phase"),               \* 474-477, or nothing restored
      Step("load", "load", "restoreTimer"),        \* 474, 479
      Step("load", "load", "restorePhase"),        \* 474, 488
      Step("restoreTimer", "Lock", "w482"),        \* 482
      Step("w482", "Unlock", "restorePhase"),      \* 483-484, 488
      Step("w482", "Unlock", "phase"),             \* 483-484
      Step("restorePhase", "Lock", "w489"),        \* 489
      Step("w489", "Unlock", "phase"),             \* 490-491
      Step("phase", "branch", "decide"),           \* 655-663, 680-685
      Step("phase", "RLock", "r666"),              \* 666
      Step("r666", "RUnlock", "decide"),           \* 667-676
      Step("decide", "branch", "dedupRefresh"),    \* 507-509
      Step("decide", "branch", "versionLock"),     \* 555-557
      Step("decide", "branch", "timerLock"),       \* 555, 571
      Step("decide", "branch", "persist"),         \* 616
      Step("decide", "return", "idle"),            \* 625-629
      Step("dedupRefresh", "gauge", "dedupLock"),  \* 520
      Step("dedupLock", "Lock", "w523"),           \* 523
      Step("w523", "Unlock", "idle"),              \* 524-535
      Step("versionLock", "Lock", "w564"),         \* 564
      Step("w564", "Unlock", "refresh"),           \* 565-566
      Step("refresh", "gauge", "phaseLock"),       \* 569
      Step("timerLock", "Lock", "w573"),           \* 573
      Step("w573", "Unlock", "phaseLock"),         \* 574-575
      Step("phaseLock", "Lock", "w579"),           \* 579
      Step("w579", "Unlock", "save"),              \* 580-581
      Step("save", "save", "send"),                \* 585-589
      Step("persist", "save", "idle") }            \* 618-629

\* The positions at which the pass is inside a call of the store, of the
\* gauge or of the channel; "blocked" is the send that found the buffer full.
CallPcs == {"load", "dedupRefresh", "refresh", "save", "persist", "send", "blocked"}

\* The positions at which the pass asks for the lock.
LockPcs == {st.from : st \in {s \in PassSteps : s.op \in {"Lock", "RLock"}}}

InitLock ==
    /\ now = 1
    /\ wrMu = {}
    /\ watched = {k \in AllKeys : k.kind # "Deployment"}
    /\ workloadVersions = [k \in AllKeys |-> ZeroAppVersion]
    /\ workloadPhases = [k \in AllKeys |-> ""]
    /\ crd = [n \in StateNames |-> NoRecord]
    /\ gauge = [k \in AllKeys |-> {}]
    /\ passPc = [k \in AllKeys |-> "idle"]
    /\ sending = [k \in AllKeys |-> NoEvent]
    /\ publisherChan = <<>>
    /\ consumerCur = NoEvent
    /\ pubIdx = 1
    /\ emitted = <<>>
    /\ delivered = [p \in Publishers |-> <<>>]
    /\ lastPass = NoPass
    /\ lastPublishErr = FALSE
    /\ eventChan = <<>>
    /\ eventSeq = 0
    /\ dropLog = <<>>
    /\ loopPc = "recv"
    /\ inHand = NoEvent
    /\ buffer = <<>>
    /\ timer = "nil"
    /\ callbacks = 0
    /\ mu = "free"
    /\ flushEvents = <<>>
    /\ flushIdx = 1
    /\ batches = [p \in BatchPublishers |-> <<>>]
    /\ cluster = [r \in InfraResources |-> "absent"]
    /\ podStates = <<>>
    /\ nodeStates = <<>>
    /\ resourceLog = <<>>

\* One statement of the pass of key k. The send itself is SendWorkloadUpdate.
PassMove(k) ==
    \E st \in PassSteps :
        /\ k \in watched
        /\ st.from = passPc[k]
        /\ st.op \in {"Lock", "RLock"} => CanAcquire(IF st.op = "Lock" THEN "w" ELSE "r")
        /\ wrMu' = CASE st.op = "Lock" -> Acquire(k, "w")
                     [] st.op = "RLock" -> Acquire(k, "r")
                     [] st.op = "Unlock" -> Release(k, "w")
                     [] st.op = "RUnlock" -> Release(k, "r")
                     [] OTHER -> wrMu
        /\ passPc' = [passPc EXCEPT ![k] = st.to]
        /\ sending' = IF st.to = "send"
                      THEN [sending EXCEPT ![k] =
                               WorkloadUpdate(k, workloadVersions[k].PreviousVersion,
                                              "1.0.0", phaseSuccess)]
                      ELSE sending
        /\ UNCHANGED <<now, watched, workloadVersions, workloadPhases, crd, gauge,
                       publisherChan, consumerCur, pubIdx, lastPass, lastPublishErr>>

NextLock ==
    \/ \E k \in AllKeys : PassMove(k) /\ Quiet /\ ResourceQuiet
    \/ \E k \in AllKeys : SendWorkloadUpdate(k) /\ Quiet /\ ResourceQuiet
    \/ LoopReceive /\ Quiet /\ ResourceQuiet
    \/ LoopPublish(FALSE) /\ Quiet /\ ResourceQuiet

SpecLock == InitLock /\ [][NextLock]_vars

(***************************************************************************)
(* SpecShutdown: the process until it exits. main starts the two Loops as  *)
(* goroutines with context.Background(), gives the context of the signal   *)
(* handler to mgr.Start alone, and returns when mgr.Start does: nothing    *)
(* closes a channel or calls Stop, and a goroutine ends where it is when   *)
(* main returns. loopPc "exited" stands for the process that has exited.   *)
(***************************************************************************)
Running == loopPc # "exited"

\* SIGTERM or SIGINT: mgr.Start returns, then main.
Shutdown ==
    /\ Running
    /\ loopPc' = "exited"
    /\ UNCHANGED <<eventChan, eventSeq, dropLog, inHand, buffer, timer, callbacks, mu,
                   flushEvents, flushIdx, batches>>

\* The first pass of the watched workload.
FirstPass(k) ==
    \E o \in PipelineObjects(k) : NothingSentYet /\ ReconcileWorkload(k, o, FALSE, FALSE)

NextShutdown ==
    \/ \E k \in AllKeys : Running /\ FirstPass(k) /\ Quiet /\ ResourceQuiet
    \/ Running /\ Sends
    \/ Running /\ Receives
    \/ Running /\ LoopPublish(FALSE) /\ ObservePublish /\ ResourceQuiet
    \/ \E r \in ResourceTypes :
          Running /\ eventSeq < MaxBatchSize /\ publishEvent(r) /\ WorkloadQuiet
    \/ Running /\ LoopTake /\ WorkloadQuiet
    \/ Running /\ addEvent /\ WorkloadQuiet
    \/ \E err \in BOOLEAN : Running /\ PublishBatch(err) /\ WorkloadQuiet
    \/ Running /\ TimerFire /\ WorkloadQuiet
    \/ Running /\ flush /\ WorkloadQuiet
    \/ Shutdown /\ WorkloadQuiet

SpecShutdown == Init /\ [][NextShutdown]_vars

(***************************************************************************)
(* SpecEvent: the externalized event. A publisher builds the payload it    *)
(* sends with model.NewAgentEventPayload from the update the Loop passes   *)
(* to it. The Loop holds an update of any key, revision and internal       *)
(* phase, the phases that determineWorkloadPhase never returns included;   *)
(* delivered records the payloads the publishers built.                    *)
(***************************************************************************)
Absent == "nil"

DeploymentPhaseProgressing == "PROGRESSING"
DeploymentPhaseCompleted == "COMPLETED"
DeploymentPhaseFailed == "FAILED"
AgentEventOutcomeSucceeded == "SUCCEEDED"
AgentEventOutcomeFailed == "FAILED"

InternalPhases == Phases \cup {"", "pending"}

mapWorkloadKind(kind) ==
    CASE ToLower(kind) = "deployment" -> "DEPLOYMENT"
      [] ToLower(kind) = "statefulset" -> "STATEFULSET"
      [] ToLower(kind) = "daemonset" -> "DAEMONSET"
      [] ToLower(kind) = "job" -> "JOB"
      [] ToLower(kind) = "cronjob" -> "CRONJOB"
      [] OTHER -> "DEPLOYMENT"

\* Variant: the phase progressing is externalized as PROGRESSING as well.
mapDeploymentPhaseOfProgressing(phase) ==
    CASE phase \in {"rolling_out", "progressing"} -> DeploymentPhaseProgressing
      [] phase = "success" -> DeploymentPhaseCompleted
      [] phase = "failed" -> DeploymentPhaseFailed
      [] OTHER -> Absent

mapDeploymentPhase(phase) ==
    CASE phase = "rolling_out" -> DeploymentPhaseProgressing
      [] phase = "success" -> DeploymentPhaseCompleted
      [] phase = "failed" -> DeploymentPhaseFailed
      [] OTHER -> Absent

mapDeploymentOutcome(phase) ==
    IF phase = Absent
    THEN Absent
    ELSE CASE phase = DeploymentPhaseCompleted -> AgentEventOutcomeSucceeded
           [] phase = DeploymentPhaseFailed -> AgentEventOutcomeFailed
           [] OTHER -> Absent

NewAgentEventPayload(update) ==
    LET phase == mapDeploymentPhase(update.DeploymentPhase)
    IN  [Workload |-> [Kind |-> mapWorkloadKind(update.Kind), Name |-> update.Name,
                       Namespace |-> update.Namespace],
         Kind |-> "DEPLOYMENT",
         Outcome |-> mapDeploymentOutcome(phase),
         Revision |-> [Current |-> update.CurrentVersion,
                       Previous |-> update.PreviousVersion],
         Phase |-> phase]

UpdatesOf(k) ==
    {WorkloadUpdate(k, previous, current, phase) :
        previous \in Versions \cup {""}, current \in Versions, phase \in InternalPhases}

InitEvent ==
    /\ now = 1
    /\ wrMu = {}
    /\ watched \in {{k} : k \in AllKeys}
    /\ workloadVersions = [k \in AllKeys |-> ZeroAppVersion]
    /\ workloadPhases = [k \in AllKeys |-> ""]
    /\ crd = [n \in StateNames |-> NoRecord]
    /\ gauge = [k \in AllKeys |-> {}]
    /\ passPc = [k \in AllKeys |-> "idle"]
    /\ sending = [k \in AllKeys |-> NoEvent]
    /\ publisherChan = <<>>
    /\ consumerCur \in UNION {UpdatesOf(k) : k \in watched}
    /\ pubIdx = 1
    /\ emitted = <<>>
    /\ delivered = [p \in Publishers |-> <<>>]
    /\ lastPass = NoPass
    /\ lastPublishErr = FALSE
    /\ eventChan = <<>>
    /\ eventSeq = 0
    /\ dropLog = <<>>
    /\ loopPc = "recv"
    /\ inHand = NoEvent
    /\ buffer = <<>>
    /\ timer = "nil"
    /\ callbacks = 0
    /\ mu = "free"
    /\ flushEvents = <<>>
    /\ flushIdx = 1
    /\ batches = [p \in BatchPublishers |-> <<>>]
    /\ cluster = [r \in InfraResources |-> "absent"]
    /\ podStates = <<>>
    /\ nodeStates = <<>>
    /\ resourceLog = <<>>

\* p.clusterID, from the configuration of the agent.
clusterID == "cluster-1"

\* fmt.Sprintf("%s/%s/%s", p.clusterID, namespace, name), as the sequence of
\* the parts that the slashes separate.
orderingKey(update) == <<clusterID, update.Namespace, update.Name>>

\* The pubsub.Message that PubSubPublisher.Publish hands to the client.
Message(update) ==
    [Data |-> NewAgentEventPayload(update), OrderingKey |-> orderingKey(update)]

\* Publish of the next publisher: it builds the payload and sends it.
PublishPayload ==
    /\ LoopPublish(FALSE)
    /\ delivered' = [delivered EXCEPT ![pubIdx] = Append(@, Message(consumerCur))]
    /\ UNCHANGED emitted

NextEvent ==
    \/ PublishPayload /\ ResourceQuiet

SpecEvent == InitEvent /\ [][NextEvent]_vars

(***************************************************************************)
(* SpecAdapter: HasFailed() of the three adapters, on objects of every     *)
(* kind with any of the conditions the cluster reports for a rollout: none,*)
(* progressing, deadline exceeded, the creation of the ReplicaSet failed,  *)
(* paused. lastPass records the object read and the answer.                *)
(***************************************************************************)
StatusConditions ==
    ProgressingConditions \cup
        { [status |-> "False", reason |-> "ReplicaSetCreateError"],
          [status |-> "Unknown", reason |-> "DeploymentPaused"] }

AdapterObjects(k) ==
    {[o EXCEPT !.progressing = c] : o \in ObjectsOf(k), c \in StatusConditions}

\* workload.HasFailed() in determineWorkloadPhase.
ReadHasFailed(k, o) ==
    /\ k \in watched
    /\ o \in AdapterObjects(k)
    /\ lastPass' = [key |-> k, object |-> o, hasFailed |-> HasFailed(o),
                    outcome |-> "adapter"]
    /\ UNCHANGED <<now, watched, wrMu, workloadVersions, workloadPhases, crd, gauge,
                   passPc, sending, publisherChan, consumerCur, pubIdx,
                   lastPublishErr>>

NextAdapter ==
    \/ \E k \in AllKeys : \E o \in AdapterObjects(k) :
          ReadHasFailed(k, o) /\ Quiet /\ ResourceQuiet

SpecAdapter == Init /\ [][NextAdapter]_vars

(***************************************************************************)
(* SpecDesired: IsRollingOut() of the three adapters, on objects whose     *)
(* declared replica count (spec.replicas) is unset, below, equal to or     *)
(* above the counters of the status. lastPass records the object read and  *)
(* the answer.                                                             *)
(***************************************************************************)
DeclaredReplicas == {NilReplicas, 1, 3, 5}

DesiredObjects(k) ==
    {[o EXCEPT !.specReplicas = r] : o \in ObjectsOf(k), r \in DeclaredReplicas}

\* workload.IsRollingOut() in determineWorkloadPhase.
ReadIsRollingOut(k, o) ==
    /\ k \in watched
    /\ o \in DesiredObjects(k)
    /\ lastPass' = [key |-> k, object |-> o, isRollingOut |-> IsRollingOut(o),
                    outcome |-> "rollingOut"]
    /\ UNCHANGED <<now, watched, wrMu, workloadVersions, workloadPhases, crd, gauge,
                   passPc, sending, publisherChan, consumerCur, pubIdx,
                   lastPublishErr>>

NextDesired ==
    \/ \E k \in AllKeys : \E o \in DesiredObjects(k) :
          ReadIsRollingOut(k, o) /\ Quiet /\ ResourceQuiet

SpecDesired == Init /\ [][NextDesired]_vars

(***************************************************************************)
(* SpecPredicate: the event filters of the three controllers. The watch    *)
(* delivers a create, delete, generic or update event; the predicate that  *)
(* SetupWithManager installs with WithEventFilter decides whether the      *)
(* event reaches Reconcile. An object carries, besides what the adapters   *)
(* read, its Generation and the other status fields the predicates         *)
(* compare. The API server changes the Generation with every change of the *)
(* spec, so an update that keeps the Generation keeps spec.replicas.       *)
(* lastPass records the event and the decision.                            *)
(***************************************************************************)
\* The Available condition of a Deployment: absent, true, or false.
AvailableConditions ==
    { NoCondition,
      [status |-> "True", reason |-> "MinimumReplicasAvailable"],
      [status |-> "False", reason |-> "MinimumReplicasUnavailable"] }

WatchedObject(o, generation, observedGeneration, available, current, unavailable, availableCond) ==
    [kind |-> o.kind, version |-> o.version, specReplicas |-> o.specReplicas,
     replicas |-> o.replicas, ready |-> o.ready, updated |-> o.updated,
     progressing |-> o.progressing, generation |-> generation,
     observedGeneration |-> observedGeneration, available |-> available,
     current |-> current, unavailable |-> unavailable,
     availableCond |-> availableCond]

Converged == [replicas |-> 3, ready |-> 3, updated |-> 3]

\* The object before the update: converged at generation 1, a Deployment with
\* its two conditions or with the Available condition alone.
OldObjects(kd) ==
    CASE kd = "Deployment" ->
            {WatchedObject(Object(kd, "1.0.0", NilReplicas, Converged, c), 1, 1, 3, 0, 0,
                           [status |-> "True", reason |-> "MinimumReplicasAvailable"]) :
                c \in {NoCondition, [status |-> "True", reason |-> "NewReplicaSetAvailable"]}}
      [] kd = "StatefulSet" ->
            {WatchedObject(Object(kd, "1.0.0", 3, Converged, NoCondition), 1, 1, 3, 3, 0,
                           NoCondition)}
      [] kd = "DaemonSet" ->
            {WatchedObject(Object(kd, "1.0.0", NilReplicas, Converged, NoCondition),
                           1, 1, 3, 3, 0, NoCondition)}

Counters == {[replicas |-> r, ready |-> rd, updated |-> u] : r, rd, u \in {1, 3}}

\* The object after the update.
NewObjects(kd) ==
    CASE kd = "Deployment" ->
            {WatchedObject(Object(kd, v, NilReplicas, st, c), g, og, a, 0, 0, ac) :
                v \in Versions, st \in Counters, c \in ProgressingConditions,
                g \in {1, 2}, og \in {1, 2}, a \in {1, 3}, ac \in AvailableConditions}
      [] kd = "StatefulSet" ->
            {WatchedObject(Object(kd, v, IF g = 1 THEN 3 ELSE r, st, NoCondition),
                           g, og, a, cu, 0, NoCondition) :
                v \in Versions, st \in Counters, g \in {1, 2}, og \in {1, 2},
                a \in {1, 3}, cu \in {1, 3}, r \in {3, 5}}
      [] kd = "DaemonSet" ->
            {WatchedObject(Object(kd, v, NilReplicas, st, NoCondition),
                           g, og, a, cu, un, NoCondition) :
                v \in Versions, st \in Counters, g \in {1, 2}, og \in {1, 2},
                a \in {1, 3}, cu \in {1, 3}, un \in {0, 2}}

UpdateEvent(old, new) == [type |-> "update", old |-> old, new |-> new]

\* The events the watch of kind kd delivers; an event of another kind's object
\* stands for an object of an unexpected type.
WatchEvents(kd) ==
    {UpdateEvent(old, new) : old \in OldObjects(kd), new \in NewObjects(kd)}
    \cup {[type |-> t, old |-> o, new |-> o] :
             t \in {"create", "delete", "generic"}, o \in OldObjects(kd)}
    \cup UNION {{UpdateEvent(old, new), UpdateEvent(new, old)} :
                   old \in OldObjects(kd),
                   new \in UNION {OldObjects(other) : other \in Kinds \ {kd}}}

\* Status.Conditions, a list.
Conditions(o) ==
    (IF o.availableCond = NoCondition
     THEN <<>>
     ELSE <<[type |-> "Available", status |-> o.availableCond.status,
             reason |-> o.availableCond.reason]>>)
    \o (IF o.progressing = NoCondition
        THEN <<>>
        ELSE <<[type |-> "Progressing", status |-> o.progressing.status,
                reason |-> o.progressing.reason]>>)

\* oldConditions[t]: the last condition of type t in the list.
LastOfType(conds, t) ==
    conds[CHOOSE i \in 1..Len(conds) :
              /\ conds[i].type = t
              /\ \A j \in (i + 1)..Len(conds) : conds[j].type # t]

conditionsChanged(oldConds, newConds) ==
    \/ Len(oldConds) # Len(newConds)
    \/ \E i \in 1..Len(newConds) :
          \/ \A j \in 1..Len(oldConds) : oldConds[j].type # newConds[i].type
          \/ /\ \E j \in 1..Len(oldConds) : oldConds[j].type = newConds[i].type
             /\ LET oldCond == LastOfType(oldConds, newConds[i].type)
                IN  \/ oldCond.status # newConds[i].status
                    \/ oldCond.reason # newConds[i].reason

\* Variant: the observed generation is not compared.
deploymentStatusChangedCountersOnly(old, new) ==
    \/ old.replicas # new.replicas
    \/ old.updated # new.updated
    \/ old.ready # new.ready
    \/ old.available # new.available
    \/ conditionsChanged(Conditions(old), Conditions(new))

deploymentStatusChanged(old, new) ==
    \/ old.replicas # new.replicas
    \/ old.updated # new.updated
    \/ old.ready # new.ready
    \/ old.available # new.available
    \/ old.observedGeneration # new.observedGeneration
    \/ conditionsChanged(Conditions(old), Conditions(new))

statefulSetStatusChanged(old, new) ==
    \/ old.replicas # new.replicas
    \/ old.updated # new.updated
    \/ old.ready # new.ready
    \/ old.current # new.current
    \/ old.available # new.available
    \/ old.observedGeneration # new.observedGeneration

daemonSetStatusChanged(old, new) ==
    \/ old.replicas # new.replicas
    \/ old.current # new.current
    \/ old.updated # new.updated
    \/ old.ready # new.ready
    \/ old.available # new.available
    \/ old.unavailable # new.unavailable
    \/ old.observedGeneration # new.observedGeneration

statusChanged(kd, old, new) ==
    CASE kd = "Deployment" -> deploymentStatusChanged(old, new)
      [] kd = "StatefulSet" -> statefulSetStatusChanged(old, new)
      [] kd = "DaemonSet" -> daemonSetStatusChanged(old, new)

\* Variant: the Generation is not compared.
UpdateFuncIgnoresGeneration(kd, e) ==
    IF e.old.kind # kd \/ e.new.kind # kd
    THEN TRUE
    ELSE statusChanged(kd, e.old, e.new)

\* UpdateFunc of the predicate of kind kd.
UpdateFunc(kd, e) ==
    IF e.old.kind # kd \/ e.new.kind # kd
    THEN TRUE
    ELSE IF e.old.generation # e.new.generation
         THEN TRUE
         ELSE statusChanged(kd, e.old, e.new)

\* predicate.Funcs of kind kd: CreateFunc, DeleteFunc, GenericFunc, UpdateFunc.
StatusChangedPredicate(kd, e) ==
    IF e.type = "update" THEN UpdateFunc(kd, e) ELSE TRUE

\* The watch of key k delivers its first event e; the filter decides. The
\* decision depends on the event alone.
FilterEvent(k, e) ==
    /\ k \in watched
    /\ lastPass = NoPass
    /\ lastPass' = [key |-> k, event |-> e,
                    passed |-> StatusChangedPredicate(k.kind, e),
                    outcome |-> "filtered"]
    /\ UNCHANGED <<now, watched, wrMu, workloadVersions, workloadPhases, crd, gauge,
                   passPc, sending, publisherChan, consumerCur, pubIdx,
                   lastPublishErr>>

NextPredicate ==
    \/ \E k \in AllKeys : \E e \in WatchEvents(k.kind) :
          FilterEvent(k, e) /\ Quiet /\ ResourceQuiet

SpecPredicate == Init /\ [][NextPredicate]_vars

(***************************************************************************)
(* SpecResolver: cluster.Resolver over a list of registered providers. A   *)
(* provider has a name, detects its platform or not, and resolves to a     *)
(* ClusterInfo or to an error. lastPass records the list and what Resolve  *)
(* and DetectProvider return for it.                                       *)
(***************************************************************************)
MaxProviders == 2

ProviderUnknown == "unknown"

ErrNoProviderDetected == "no cloud provider detected"

ProviderNames == {"gcp", "other"}

\* What Provider.Resolve returns: (*ClusterInfo, error).
ResolveResult(info, err) == [info |-> info, err |-> err]

Provider(name, detect, ok) ==
    [name |-> name, detect |-> detect,
     resolve |-> IF ok
                 THEN ResolveResult([ClusterID |-> <<name, "cluster">>, Provider |-> name], "")
                 ELSE ResolveResult(Absent, "metadata request failed")]

Providers(n) ==
    [1..n -> {Provider(name, detect, ok) :
                 name \in ProviderNames, detect \in BOOLEAN, ok \in BOOLEAN}]

ProviderLists == UNION {Providers(n) : n \in 0..MaxProviders}

\* Variant: the loop keeps the result of the last provider that detects.
RECURSIVE ResolveLastFrom(_, _, _)
ResolveLastFrom(providers, i, found) ==
    IF i > Len(providers)
    THEN found
    ELSE IF providers[i].detect
         THEN ResolveLastFrom(providers, i + 1, providers[i].resolve)
         ELSE ResolveLastFrom(providers, i + 1, found)

ResolveOfLast(providers) ==
    ResolveLastFrom(providers, 1, ResolveResult(Absent, ErrNoProviderDetected))

\* for _, provider := range r.providers, from index i on.
RECURSIVE ResolveFrom(_, _)
ResolveFrom(providers, i) ==
    IF i > Len(providers)
    THEN ResolveResult(Absent, ErrNoProviderDetected)
    ELSE IF providers[i].detect
         THEN providers[i].resolve
         ELSE ResolveFrom(providers, i + 1)

\* Resolver.Resolve
Resolve(providers) == ResolveFrom(providers, 1)

RECURSIVE DetectFrom(_, _)
DetectFrom(providers, i) ==
    IF i > Len(providers)
    THEN ProviderUnknown
    ELSE IF providers[i].detect
         THEN providers[i].name
         ELSE DetectFrom(providers, i + 1)

\* Resolver.DetectProvider
DetectProvider(providers) == DetectFrom(providers, 1)

\* A resolver with the given providers is asked once.
AskResolver(providers) ==
    /\ lastPass = NoPass
    /\ lastPass' = [providers |-> providers, resolved |-> Resolve(providers),
                    detected |-> DetectProvider(providers), outcome |-> "resolved"]
    /\ UNCHANGED <<now, watched, wrMu, workloadVersions, workloadPhases, crd, gauge,
                   passPc, sending, publisherChan, consumerCur, pubIdx,
                   lastPublishErr>>

NextResolver ==
    \/ \E providers \in ProviderLists : AskResolver(providers) /\ Quiet /\ ResourceQuiet

SpecResolver == Init /\ [][NextResolver]_vars

(***************************************************************************)
(* SpecCrash: the process can stop at any point, between the save and the  *)
(* send of a pass included, and start again over the store it left. The    *)
(* sends on publisherChan are recorded in emitted across the restarts; at  *)
(* most MaxEvents updates are produced. The workload is a DaemonSet: the   *)
(* code after the adapter calls is the same for all kinds.                 *)
(***************************************************************************)
NextCrash ==
    \/ \E k \in FaultKeys : \E o \in ObjectsOf(k) :
           /\ EventsInFlight < MaxEvents
           /\ ReconcileWorkload(k, o, FALSE, FALSE)
           /\ Quiet /\ ResourceQuiet
    \/ \E k \in AllKeys : SendWorkloadUpdate(k) /\ ObserveSend /\ ResourceQuiet
    \/ LoopReceive /\ Quiet /\ ResourceQuiet
    \/ LoopPublish(FALSE) /\ Quiet /\ ResourceQuiet
    \/ Restart /\ Quiet /\ ResourceQuiet

SpecCrash == Init /\ [][NextCrash]_vars

(***************************************************************************)
(* The pod and node reconcilers. Each keeps a map of the last state it saw *)
(* of a resource and builds a Created, StatusChange or Deleted event from  *)
(* what Get returns; the event goes to eventChan by publishEvent.          *)
(***************************************************************************)
ResourceEventKindCreated == "CREATED"
ResourceEventKindDeleted == "DELETED"
ResourceEventKindStatusChange == "STATUS_CHANGE"

\* ResourceFilterConfig as the flags give it: one excluded namespace, one
\* required label key, one excluding label.
ExcludeNamespaces == {"kube-system"}
WatchNamespaces == {}
RequireLabels == {"app.kubernetes.io/managed-by"}
ExcludeLabels == {<<"internal.apptrail.sh/ignore", "true">>}

\* Label maps, as sets of <<key, value>>.
LabelSets ==
    { {<<"app.kubernetes.io/managed-by", "helm">>},
      {<<"app", "api">>},
      {<<"app.kubernetes.io/managed-by", "helm">>, <<"internal.apptrail.sh/ignore", "true">>} }

LabelKeys(labels) == {kv[1] : kv \in labels}

ShouldWatchNamespace(namespace) ==
    IF namespace \in ExcludeNamespaces
    THEN FALSE
    ELSE IF WatchNamespaces = {}
         THEN TRUE
         ELSE namespace \in WatchNamespaces

ShouldWatchResource(labels) ==
    /\ \A requiredKey \in RequireLabels : requiredKey \in LabelKeys(labels)
    /\ \A exclusion \in ExcludeLabels :
           \A kv \in labels :
               kv[1] = exclusion[1] => ~(exclusion[2] = "" \/ kv[2] = exclusion[2])

\* What r.Get returns: the object, a not-found error, or another error.
NotFound == [err |-> "NotFound"]
GetFailed == [err |-> "other"]

BasePod ==
    [labels |-> {<<"app.kubernetes.io/managed-by", "helm">>},
     phase |-> "Pending", ready |-> FALSE, nodeName |-> "", restartCount |-> 0,
     resourceVersion |-> "1"]

\* The pods Get can return: one base pod, the pods that differ from it in
\* one field of the status, in the resourceVersion only, or in the labels.
PodObjects ==
    {BasePod,
     [BasePod EXCEPT !.phase = "Running"],
     [BasePod EXCEPT !.ready = TRUE],
     [BasePod EXCEPT !.nodeName = "node-1"],
     [BasePod EXCEPT !.restartCount = 1],
     [BasePod EXCEPT !.resourceVersion = "2"]}
    \cup {[BasePod EXCEPT !.labels = l] : l \in LabelSets}

BaseNode ==
    [ready |-> TRUE, unschedulable |-> FALSE, hasPressure |-> FALSE,
     kubeletVersion |-> "v1.30.0", resourceVersion |-> "1"]

NodeObjects ==
    {BaseNode,
     [BaseNode EXCEPT !.ready = FALSE],
     [BaseNode EXCEPT !.unschedulable = TRUE],
     [BaseNode EXCEPT !.hasPressure = TRUE],
     [BaseNode EXCEPT !.kubeletVersion = "v1.31.0"],
     [BaseNode EXCEPT !.resourceVersion = "2"]}

\* The API server's answer to a Get of resource r.
GetResults(r, objects) ==
    IF cluster[r] = "present" THEN objects \cup {GetFailed} ELSE {NotFound, GetFailed}

podState(pod) ==
    [phase |-> pod.phase, ready |-> pod.ready, nodeName |-> pod.nodeName,
     restartCount |-> pod.restartCount, resourceVersion |-> pod.resourceVersion]

nodeState(node) ==
    [ready |-> node.ready, unschedulable |-> node.unschedulable,
     hasPressure |-> node.hasPressure, kubeletVersion |-> node.kubeletVersion,
     resourceVersion |-> node.resourceVersion]

podHasStateChanged(last, current) ==
    \/ last.phase # current.phase
    \/ last.ready # current.ready
    \/ last.nodeName # current.nodeName
    \/ last.restartCount # current.restartCount

nodeHasStateChanged(last, current) ==
    \/ last.ready # current.ready
    \/ last.unschedulable # current.unschedulable
    \/ last.hasPressure # current.hasPressure
    \/ last.kubeletVersion # current.kubeletVersion

\* A Go map with key k set to v, and with key k deleted.
MapSet(m, k, v) == [x \in DOMAIN m \cup {k} |-> IF x = k THEN v ELSE m[x]]

MapDelete(m, k) == [x \in DOMAIN m \ {k} |-> m[x]]

LoggedEvent(resourceType, ref, eventKind) ==
    [ResourceType |-> resourceType, Ref |-> ref, EventKind |-> eventKind]

\* The pass builds an event of the kind and hands it to the non-blocking send.
EmitResourceEvent(r, ref, eventKind) ==
    /\ publishEvent(r)
    /\ resourceLog' = Append(resourceLog, LoggedEvent(r, ref, eventKind))

NoResourceEvent == UNCHANGED <<resourceVars, resourceLog>>

\* PodReconciler.handleDeletion
podHandleDeletion(p) ==
    /\ EmitResourceEvent("pod", p, ResourceEventKindDeleted)
    /\ podStates' = MapDelete(podStates, p)

\* PodReconciler.reconcilePod
reconcilePod(p, pod) ==
    LET currentState == podState(pod)
    IN  IF p \notin DOMAIN podStates
        THEN /\ EmitResourceEvent("pod", p, ResourceEventKindCreated)
             /\ podStates' = MapSet(podStates, p, currentState)
        ELSE IF podHasStateChanged(podStates[p], currentState)
             THEN /\ EmitResourceEvent("pod", p, ResourceEventKindStatusChange)
                  /\ podStates' = MapSet(podStates, p, currentState)
             ELSE NoResourceEvent /\ UNCHANGED podStates

\* PodReconciler.Reconcile for the request of pod p; got is what Get returns.
PodReconcile(p, got) ==
    /\ cluster[p] # "absent"
    /\ got \in GetResults(p, PodObjects)
    /\ UNCHANGED <<cluster, nodeStates>>
    /\ UNCHANGED workloadVars
    /\ IF ~ShouldWatchNamespace(p.namespace)
       THEN NoResourceEvent /\ UNCHANGED podStates
       ELSE IF got = NotFound
       THEN podHandleDeletion(p)
       ELSE IF got = GetFailed
       THEN NoResourceEvent /\ UNCHANGED podStates
       ELSE IF ~ShouldWatchResource(got.labels)
       THEN NoResourceEvent /\ UNCHANGED podStates
       ELSE reconcilePod(p, got)

\* NodeReconciler.handleDeletion
nodeHandleDeletion(n) ==
    /\ EmitResourceEvent("node", n, ResourceEventKindDeleted)
    /\ nodeStates' = MapDelete(nodeStates, n)

\* NodeReconciler.reconcileNode
reconcileNode(n, node) ==
    LET currentState == nodeState(node)
    IN  IF n \notin DOMAIN nodeStates
        THEN /\ EmitResourceEvent("node", n, ResourceEventKindCreated)
             /\ nodeStates' = MapSet(nodeStates, n, currentState)
        ELSE IF nodeHasStateChanged(nodeStates[n], currentState)
             THEN /\ EmitResourceEvent("node", n, ResourceEventKindStatusChange)
                  /\ nodeStates' = MapSet(nodeStates, n, currentState)
             ELSE NoResourceEvent /\ UNCHANGED nodeStates

\* NodeReconciler.Reconcile for the request of node n; got is what Get returns.
NodeReconcile(n, got) ==
    /\ cluster[n] # "absent"
    /\ got \in GetResults(n, NodeObjects)
    /\ UNCHANGED <<cluster, podStates>>
    /\ UNCHANGED workloadVars
    /\ IF got = NotFound
       THEN nodeHandleDeletion(n)
       ELSE IF got = GetFailed
       THEN NoResourceEvent /\ UNCHANGED nodeStates
       ELSE reconcileNode(n, got)

\* The cluster: a resource is created, deleted, or created again under the
\* name of a deleted one. Each change is a watch event, which queues a request.
ClusterChange(r) ==
    /\ cluster' = [cluster EXCEPT ![r] = IF @ = "present" THEN "gone" ELSE "present"]
    /\ UNCHANGED <<podStates, nodeStates, resourceLog>>
    /\ UNCHANGED resourceVars
    /\ UNCHANGED workloadVars

(***************************************************************************)
(* SpecInfra: the pod and node reconcilers of one process over a cluster   *)
(* whose pods and node come, change and go. eventChan has no receiver:     *)
(* the first ResourceCap events are sent, the later ones dropped.          *)
(***************************************************************************)
NextInfra ==
    \/ \E r \in InfraResources : ClusterChange(r)
    \/ \E p \in PodKeys : \E got \in PodObjects \cup {NotFound, GetFailed} :
           PodReconcile(p, got)
    \/ \E n \in NodeKeys : \E got \in NodeObjects \cup {NotFound, GetFailed} :
           NodeReconcile(n, got)

SpecInfra == Init /\ [][NextInfra]_vars

(***************************************************************************)
(* Properties                                                              *)
(***************************************************************************)
\* The step is a pass (ReconcileWorkload or HandleDeletion) of key k, whose
\* record is lastPass'.
PassStep(k) ==
    /\ lastPass'.outcome # "none"
    /\ lastPass'.key = k
    /\ passPc[k] = "idle"
    /\ UNCHANGED <<now, publisherChan, consumerCur, pubIdx>>
    /\ \A j \in AllKeys \ {k} : passPc'[j] = passPc[j]

\* The step is a pass of key k on an object that carries the version label.
LabelledPassStep(k) ==
    /\ PassStep(k)
    /\ lastPass'.outcome \in {"suppressed", "emitted", "quiet"}

\* The transition function of the phase state machine, on the record of a pass.
PhaseOf(pass, t) ==
    IF pass.hasFailed
    THEN phaseFailed
    ELSE IF pass.isRollingOut
         THEN IF pass.timer # 0 /\ t - pass.timer > RolloutTimeout
              THEN phaseFailed
              ELSE phaseRollingOut
         ELSE IF pass.converged THEN phaseSuccess ELSE phaseProgressing

\* C1: every pass on a labelled workload resolves the phase failed if
\* HasFailed(); else, if IsRollingOut(), failed when more than 15 minutes have
\* elapsed since RolloutStarted and rolling_out otherwise (also when
\* RolloutStarted is unset); else success if ready and updated replicas equal
\* the total; else progressing. The resolved phase is the one the pass caches.
C1_PhaseFunction ==
    [][\A k \in AllKeys :
          LabelledPassStep(k) =>
              /\ lastPass'.phase = PhaseOf(lastPass', now)
              /\ workloadPhases'[k] = lastPass'.phase]_vars

\* A pass that resolved failed by the timeout alone.
C1_Witness ==
    /\ lastPass.outcome = "emitted"
    /\ lastPass.phase = phaseFailed
    /\ ~lastPass.hasFailed
    /\ lastPass.isRollingOut

\* C2: a pass produces at most one WorkloadUpdate, and one only when the
\* resolved phase differs from the in-memory last sent phase or the version
\* label differs from the in-memory CurrentVersion; a pass that repeats the
\* phase and version of the preceding pass, or of the persisted record seen
\* by a fresh process, produces none.
C2_EmitOnlyOnChange ==
    [][\A k \in AllKeys :
          PassStep(k) =>
              /\ sending'[k] = lastPass'.event
              /\ lastPass'.event # NoEvent =>
                    \/ lastPass'.phase # workloadPhases[k]
                    \/ lastPass'.version # workloadVersions[k].CurrentVersion
              /\ ( /\ lastPass.outcome \in {"suppressed", "emitted", "quiet"}
                   /\ lastPass.key = k
                   /\ lastPass'.outcome # "deleted"
                   /\ lastPass'.version = lastPass.version
                   /\ lastPass'.phase = lastPass.phase )
                 => lastPass'.event = NoEvent
              /\ ( /\ workloadVersions[k] = ZeroAppVersion
                   /\ workloadPhases[k] = ""
                   /\ crd[StateName(k)].exists
                   /\ lastPass'.outcome # "deleted"
                   /\ lastPass'.version = crd[StateName(k)].LastSentVersion
                   /\ lastPass'.phase = crd[StateName(k)].LastSentPhase )
                 => lastPass'.event = NoEvent]_vars

\* A pass that repeated the phase and version it had just sent and persisted.
C2_Witness ==
    /\ lastPass.outcome = "quiet"
    /\ lastPass.version # ""
    /\ crd[StateName(lastPass.key)].exists
    /\ crd[StateName(lastPass.key)].LastSentVersion = lastPass.version
    /\ crd[StateName(lastPass.key)].LastSentPhase = lastPass.phase
    /\ workloadPhases[lastPass.key] = lastPass.phase

\* C3: for every kind, a pass on a workload without the version label
\* creates no in-memory entry, writes no persisted record, produces no
\* update, refreshes no gauge series, and asks for no requeue.
C3_UnlabelledSkipped ==
    [][\A k \in AllKeys :
          (PassStep(k) /\ lastPass'.outcome # "deleted" /\ lastPass'.version = "") =>
              /\ lastPass'.outcome = "skipped"
              /\ lastPass'.event = NoEvent
              /\ lastPass'.requeue = 0
              /\ UNCHANGED <<workloadVersions, workloadPhases, crd, gauge,
                             sending, passPc>>]_vars

\* An unlabelled StatefulSet was reconciled and nothing exists for it.
C3_Witness ==
    /\ lastPass.outcome = "skipped"
    /\ lastPass.key.kind = "StatefulSet"
    /\ workloadVersions[lastPass.key] = ZeroAppVersion
    /\ workloadPhases[lastPass.key] = ""
    /\ ~crd[StateName(lastPass.key)].exists

\* The rollout of key k is recorded as started at T: the in-memory entry of a
\* key in rolling_out, or the persisted record a fresh process finds.
RollingSince(k, T) ==
    \/ /\ workloadPhases[k] = phaseRollingOut
       /\ workloadVersions[k].RolloutStarted = T
    \/ /\ workloadVersions[k] = ZeroAppVersion
       /\ workloadPhases[k] = ""
       /\ crd[StateName(k)].exists
       /\ crd[StateName(k)].LastSentPhase = phaseRollingOut
       /\ crd[StateName(k)].RolloutStarted = T

\* The step is a pass of key k that finds the workload rolling out and not
\* failed.
StillRollingPass(k) ==
    /\ LabelledPassStep(k)
    /\ lastPass'.isRollingOut
    /\ ~lastPass'.hasFailed

\* A pass that resolves rolling_out with no rollout start recorded records
\* the current time as the start.
EntersRollingOut(k) ==
    (LabelledPassStep(k) /\ lastPass'.phase = phaseRollingOut /\ lastPass'.timer = 0)
        => RollingSince(k, now)'

\* C4 (as stated): a workload that entered rolling_out at T and is still
\* rolling out is resolved failed by a pass at a time >= T + 15 minutes and
\* rolling_out by a pass at a time < T + 15 minutes.
C4_TimeoutAsStated ==
    [][\A k \in AllKeys : \A T \in Instants :
          (RollingSince(k, T) /\ StillRollingPass(k)) =>
              IF now - T >= RolloutTimeout
              THEN lastPass'.phase = phaseFailed
              ELSE lastPass'.phase = phaseRollingOut]_vars

\* C4: a workload that entered rolling_out at T and is still rolling out is
\* resolved failed by the first pass at a time > T + 15 minutes, and
\* rolling_out, with T kept as the start of the rollout, by every pass at a
\* time <= T + 15 minutes.
C4_Timeout ==
    [][\A k \in AllKeys :
          /\ EntersRollingOut(k)
          /\ \A T \in Instants :
                (RollingSince(k, T) /\ StillRollingPass(k)) =>
                    IF now - T > RolloutTimeout
                    THEN lastPass'.phase = phaseFailed
                    ELSE /\ lastPass'.phase = phaseRollingOut
                         /\ RollingSince(k, T)']_vars

\* A pass exactly 15 minutes after the start of the rollout resolved
\* rolling_out.
C4_Witness ==
    /\ lastPass.outcome \in {"suppressed", "quiet"}
    /\ lastPass.phase = phaseRollingOut
    /\ lastPass.timer # 0
    /\ now - lastPass.timer = RolloutTimeout
    /\ RollingSince(lastPass.key, lastPass.timer)

\* C5: with a persisted record (LastSentVersion V, LastSentPhase P), the
\* first pass of a fresh process on a workload labelled V that resolves P
\* sends no update and writes nothing to the store, and replaces the gauge
\* series of the key by one series for V.
C5_RestartDedup ==
    [][\A k \in AllKeys :
          ( /\ PassStep(k)
            /\ workloadVersions[k] = ZeroAppVersion
            /\ workloadPhases[k] = ""
            /\ crd[StateName(k)].exists
            /\ lastPass'.outcome # "deleted"
            /\ lastPass'.version = crd[StateName(k)].LastSentVersion
            /\ lastPass'.phase = crd[StateName(k)].LastSentPhase )
          => /\ lastPass'.outcome = "suppressed"
             /\ lastPass'.event = NoEvent
             /\ ~lastPass'.saveCalled
             /\ UNCHANGED <<crd, sending, passPc>>
             /\ gauge'[k] = {[previous_version |-> lastPass'.version,
                              current_version |-> lastPass'.version,
                              last_updated |-> now]}]_vars

\* A fresh process suppressed the update of a converged workload and the
\* gauge carries its series again.
C5_Witness ==
    /\ lastPass.outcome = "suppressed"
    /\ lastPass.phase = phaseSuccess
    /\ workloadVersions[lastPass.key].PreviousVersion = lastPass.version
    /\ gauge[lastPass.key] # {}
    /\ \A s \in gauge[lastPass.key] : s.current_version = lastPass.version
    /\ sending[lastPass.key] = NoEvent

\* C6: a pass suppressed by the restart deduplication leaves the in-memory
\* CurrentVersion at V and the cached phase at P, and the next pass on the
\* labelled workload sends one update if the version or the resolved phase
\* differs from (V, P) and none if both are the same.
C6_SeededAfterDedup ==
    [][\A k \in AllKeys :
          /\ (PassStep(k) /\ lastPass'.outcome = "suppressed") =>
                /\ workloadVersions'[k].CurrentVersion = lastPass'.version
                /\ workloadPhases'[k] = lastPass'.phase
                /\ lastPass'.version = crd[StateName(k)].LastSentVersion
                /\ lastPass'.phase = crd[StateName(k)].LastSentPhase
          /\ (lastPass.outcome = "suppressed" /\ lastPass.key = k
              /\ LabelledPassStep(k)) =>
                /\ sending'[k] = lastPass'.event
                /\ lastPass'.event # NoEvent <=>
                      \/ lastPass'.version # lastPass.version
                      \/ lastPass'.phase # lastPass.phase]_vars

\* The pass after a suppressed one resolved another phase for the same
\* version and sent the update; only a cache seeded by the deduplication
\* holds the same previous and current version.
C6_Witness ==
    /\ lastPass.outcome = "emitted"
    /\ lastPass.event.PreviousVersion # ""
    /\ lastPass.event.PreviousVersion = lastPass.event.CurrentVersion
    /\ workloadPhases[lastPass.key] = lastPass.phase

\* The Deployment key and the objects of the end-to-end scenario.
scenarioKey == [namespace |-> <<"prod">>, name |-> <<"web">>, kind |-> "Deployment"]

scenarioUnlabelled ==
    {o \in Deployments : GetVersion(o) = ""}

scenarioRollingOut ==
    {o \in Deployments :
        /\ GetVersion(o) = "1.0.0"
        /\ GetTotalReplicas(o) = 3
        /\ GetReadyReplicas(o) = 1
        /\ ~HasFailed(o)}

scenarioConverged ==
    {o \in Deployments :
        /\ GetVersion(o) = "1.0.0"
        /\ GetTotalReplicas(o) = 3
        /\ GetReadyReplicas(o) = 3
        /\ GetUpdatedReplicas(o) = 3
        /\ ~HasFailed(o)}

\* Nothing is recorded for key k, in memory or in the store.
EmptyFor(k) ==
    /\ workloadVersions[k] = ZeroAppVersion
    /\ workloadPhases[k] = ""
    /\ ~crd[StateName(k)].exists

\* Key k was sent as (no previous version, 1.0.0, rolling_out).
RolledOutFor(k) ==
    /\ workloadVersions[k].PreviousVersion = ""
    /\ workloadVersions[k].CurrentVersion = "1.0.0"
    /\ workloadPhases[k] = phaseRollingOut

\* C7: from the empty state, a pass on the unlabelled Deployment sends
\* nothing and persists nothing; a pass on it labelled 1.0.0 with 3 replicas
\* and 1 ready sends exactly the update (previous "", current 1.0.0,
\* rolling_out); a pass after ready and updated replicas reached 3 sends
\* exactly the update (previous "", current 1.0.0, success).
C7_EndToEnd ==
    [][/\ \A o \in scenarioUnlabelled :
            (EmptyFor(scenarioKey) /\ ReconcileWorkload(scenarioKey, o, FALSE, FALSE)) =>
                /\ lastPass'.event = NoEvent
                /\ sending' = sending
                /\ EmptyFor(scenarioKey)'
       /\ \A o \in scenarioRollingOut :
            (EmptyFor(scenarioKey) /\ ReconcileWorkload(scenarioKey, o, FALSE, FALSE)) =>
                /\ lastPass'.event =
                      WorkloadUpdate(scenarioKey, "", "1.0.0", phaseRollingOut)
                /\ sending'[scenarioKey] = lastPass'.event
                /\ RolledOutFor(scenarioKey)'
       /\ \A o \in scenarioConverged :
            (RolledOutFor(scenarioKey) /\ ReconcileWorkload(scenarioKey, o, FALSE, FALSE)) =>
                /\ lastPass'.event =
                      WorkloadUpdate(scenarioKey, "", "1.0.0", phaseSuccess)
                /\ sending'[scenarioKey] = lastPass'.event]_vars

\* The two updates of the scenario, and only they, were sent, in order.
C7_Witness ==
    /\ emitted = << WorkloadUpdate(scenarioKey, "", "1.0.0", phaseRollingOut),
                    WorkloadUpdate(scenarioKey, "", "1.0.0", phaseSuccess) >>
    /\ crd[StateName(scenarioKey)].RolloutStarted = 0
    /\ crd[StateName(scenarioKey)].LastSentPhase = phaseSuccess

\* What publisher p has yet to be passed of the updates sent so far.
Undelivered(p) ==
    (IF consumerCur # NoEvent /\ p >= pubIdx THEN <<consumerCur>> ELSE <<>>)
        \o publisherChan

\* C8: the Loop takes the updates in the order they were sent and passes
\* each one to every publisher once, publisher by publisher in registration
\* order, before it takes the next: what each publisher was passed, followed
\* by what it has yet to be passed, is the sequence of updates sent; and the
\* update a pass is sending, or sent last, is the one it resolved.
C8_FifoDelivery ==
    /\ \A p \in Publishers : delivered[p] \o Undelivered(p) = emitted
    /\ \A p \in Publishers : \A q \in Publishers :
          p < q => Len(delivered[q]) <= Len(delivered[p])
                   /\ Len(delivered[p]) <= Len(delivered[q]) + 1
    /\ \A k \in AllKeys :
          sending[k] # NoEvent =>
              /\ lastPass.outcome = "emitted"
              /\ lastPass.key = k
              /\ sending[k] = lastPass.event
    /\ (lastPass.outcome = "emitted" /\ sending[lastPass.key] = NoEvent) =>
          /\ emitted # <<>>
          /\ emitted[Len(emitted)] = lastPass.event

\* Every publisher was passed three updates of one workload, in the order
\* in which they were sent.
C8_Witness ==
    /\ Len(emitted) = MaxEvents
    /\ \A p \in Publishers : delivered[p] = emitted
    /\ \A i \in 1..(Len(emitted) - 1) : emitted[i] # emitted[i + 1]
    /\ publisherChan = <<>>

\* C9: the send of a pass is a blocking hand-off: the update stays with the
\* pass until it is appended to the channel, which happens only when the
\* channel holds fewer than its capacity; a pass that finds the channel full
\* parks and stays parked while it is full; no update is dropped.
C9_BlockingHandOff ==
    [][\A k \in AllKeys :
          /\ Len(publisherChan') <= QueueCap
          /\ passPc[k] \in {"send", "blocked"} =>
                \/ /\ passPc'[k] \in {"send", "blocked"}
                   /\ sending'[k] = sending[k]
                   /\ sending[k] # NoEvent
                \/ /\ passPc'[k] = "idle"
                   /\ Len(publisherChan) < QueueCap
                   /\ publisherChan' = Append(publisherChan, sending[k])
          /\ (passPc[k] \in {"send", "blocked"} /\ Len(publisherChan) = QueueCap
              /\ Len(publisherChan') = QueueCap) =>
                passPc'[k] = "blocked"]_vars

\* A pass is parked on the full channel, its update still with it.
C9_Witness ==
    \E k \in AllKeys :
        /\ passPc[k] = "blocked"
        /\ Len(publisherChan) = QueueCap
        /\ sending[k] # NoEvent
        /\ \A i \in 1..Len(publisherChan) : publisherChan[i] # sending[k]

\* C10 (as stated): a pass that has an update to send and finds the channel
\* full drops the update instead of enqueuing it.
C10_DroppedWhenFull ==
    [][\A k \in AllKeys :
          (passPc[k] = "send" /\ Len(publisherChan) = QueueCap
           /\ passPc'[k] # passPc[k]) =>
              /\ passPc'[k] = "idle"
              /\ sending'[k] = NoEvent
              /\ publisherChan' = publisherChan]_vars

\* The step is a publishEvent of the pod or node reconciler.
PublishEventStep == eventSeq' = eventSeq + 1

\* C11: publishEvent never blocks: whatever the channel holds the send can
\* complete; with room in the channel the event is enqueued at its tail and
\* nothing is logged; with the channel at capacity the channel is left as it
\* is and the event is logged as dropped.
C11_NonBlockingSend ==
    [][/\ eventSeq < MaxResourceEvents =>
             \A r \in ResourceTypes : ENABLED publishEvent(r)
       /\ Len(eventChan') <= ResourceCap
       /\ PublishEventStep =>
             \E r \in ResourceTypes :
                 IF Len(eventChan) < ResourceCap
                 THEN /\ eventChan' = Append(eventChan, ResourceEvent(r, eventSeq'))
                      /\ dropLog' = dropLog
                 ELSE /\ eventChan' = eventChan
                      /\ dropLog' = Append(dropLog, ResourceEvent(r, eventSeq'))]_vars

\* An event was dropped at the full channel while an earlier one was still
\* waiting for the Loop.
C11_Witness ==
    /\ dropLog # <<>>
    /\ Len(eventChan) = ResourceCap
    /\ dropLog[Len(dropLog)].Seq = eventSeq
    /\ \A i \in 1..Len(eventChan) : eventChan[i].Seq < eventSeq

\* The step is a Publish call of the Loop that returned an error.
FailedPublishStep == delivered' # delivered /\ lastPublishErr'

\* C12: a Publish that returns an error changes nothing in the Loop: the
\* same update goes to the next publisher, after the last publisher the Loop
\* is back at its receive with the channel untouched, and after an error
\* the Loop can always take its next step (publish the update in its hands,
\* or receive the next one).
C12_PublishErrorIsolated ==
    [][/\ FailedPublishStep =>
             /\ publisherChan' = publisherChan
             /\ IF pubIdx < NumPublishers
                THEN /\ consumerCur' = consumerCur
                     /\ pubIdx' = pubIdx + 1
                ELSE /\ consumerCur' = NoEvent
                     /\ pubIdx' = 1
       /\ lastPublishErr =>
             /\ consumerCur # NoEvent => ENABLED LoopPublish(FALSE)
             /\ (consumerCur = NoEvent /\ publisherChan # <<>>) => ENABLED LoopReceive
             /\ delivered' # delivered =>
                   delivered'[pubIdx] = Append(delivered[pubIdx], consumerCur)]_vars

\* After a first update went to every publisher, the first publisher failed
\* on the second update and the Loop is about to pass that update to the
\* second publisher.
C12_Witness ==
    /\ lastPublishErr
    /\ consumerCur # NoEvent
    /\ pubIdx = 2
    /\ Len(delivered[1]) = 2
    /\ Len(delivered[NumPublishers]) = 1
    /\ delivered[1][2] = consumerCur

\* The events of a sequence of batches, in order.
RECURSIVE Flatten(_)
Flatten(bs) == IF bs = <<>> THEN <<>> ELSE bs[1].events \o Flatten(Tail(bs))

\* The ranks of the events that were enqueued on eventChan.
EnqueuedSeqs ==
    {n \in 1..eventSeq : \A i \in 1..Len(dropLog) : dropLog[i].Seq # n}

\* Everything that was enqueued went through the batcher.
BatcherDrained ==
    /\ eventChan = <<>>
    /\ loopPc = "recv"
    /\ buffer = <<>>
    /\ mu = "free"
    /\ callbacks = 0

\* C13: of N events that arrive faster than the flush window, every batch
\* published holds between 1 and MaxBatchSize events; a batch flushed by
\* size holds exactly MaxBatchSize, a batch flushed by the timer holds
\* fewer and is the last one; once all N went through, each publisher was
\* passed N div MaxBatchSize full batches, then one batch of the
\* N mod MaxBatchSize remaining events if there are any, and the batches
\* hold the N events in arrival order.
C13_BurstBatches ==
    \A p \in BatchPublishers :
        LET bs == batches[p]
            N == Cardinality(EnqueuedSeqs)
            all == Flatten(bs)
        IN  /\ \A i \in 1..Len(bs) :
                  /\ Len(bs[i].events) >= 1
                  /\ Len(bs[i].events) <= MaxBatchSize
                  /\ bs[i].trigger = "size" => Len(bs[i].events) = MaxBatchSize
                  /\ bs[i].trigger = "timer" =>
                        /\ i = Len(bs)
                        /\ Len(bs[i].events) < MaxBatchSize
            /\ BatcherDrained =>
                  /\ Len(bs) = (N \div MaxBatchSize)
                                  + (IF N % MaxBatchSize # 0 THEN 1 ELSE 0)
                  /\ \A i \in 1..Len(bs) :
                        bs[i].trigger = IF i <= N \div MaxBatchSize THEN "size" ELSE "timer"
                  /\ N % MaxBatchSize # 0 =>
                        Len(bs[Len(bs)].events) = N % MaxBatchSize
                  /\ Len(all) = N
                  /\ {all[i].Seq : i \in 1..Len(all)} = EnqueuedSeqs
                  /\ \A i \in 1..Len(all) : \A j \in 1..Len(all) :
                        i < j => all[i].Seq < all[j].Seq

\* A burst of one and a half batches went through: one full batch flushed
\* by size, then the remaining half flushed by the timer.
C13_Witness ==
    /\ BatcherDrained
    /\ 2 * Cardinality(EnqueuedSeqs) = 3 * MaxBatchSize
    /\ \A p \in BatchPublishers :
          /\ Len(batches[p]) = 2
          /\ batches[p][1].trigger = "size"
          /\ Len(batches[p][1].events) = MaxBatchSize
          /\ batches[p][2].trigger = "timer"
          /\ 2 * Len(batches[p][2].events) = MaxBatchSize

\* The events on their way to batch publisher p, from the batches it was
\* passed to the channel: the batches, the batch being published if p has
\* not been passed it yet, the buffer, the event in the hands of the Loop,
\* and the channel.
PathTo(p) ==
    Flatten(batches[p])
        \o (IF mu # "free" /\ p >= flushIdx THEN flushEvents ELSE <<>>)
        \o buffer
        \o (IF inHand # NoEvent THEN <<inHand>> ELSE <<>>)
        \o eventChan

\* Every enqueued event is at exactly one place of the path to each
\* publisher, in arrival order; a flush is in progress exactly when the lock
\* is held by the flush; a non-empty buffer has a timer that is armed, or
\* expired with its callback still to run.
BatcherAccounting ==
    /\ \A p \in BatchPublishers :
          LET path == PathTo(p)
          IN  /\ {path[i].Seq : i \in 1..Len(path)} = EnqueuedSeqs
              /\ \A i \in 1..Len(path) : \A j \in 1..Len(path) :
                    i < j => path[i].Seq < path[j].Seq
    /\ \A p \in BatchPublishers : \A i \in 1..Len(batches[p]) :
          batches[p][i].events # <<>>
    /\ (mu = "free") <=> (flushEvents = <<>>)
    /\ buffer # <<>> =>
          \/ timer = "armed"
          \/ timer = "expired" /\ callbacks > 0
    /\ buffer = <<>> => timer = "nil"

PersistedAsResolved(k) ==
    LET rec == crd'[StateName(k)]
    IN  /\ rec.exists
        /\ rec.WorkloadNamespace = k.namespace
        /\ rec.WorkloadName = k.name
        /\ rec.WorkloadKind = k.kind
        /\ rec.Version = lastPass'.version
        /\ rec.LastSentVersion = lastPass'.version
        /\ rec.LastSentPhase = lastPass'.phase
        /\ rec.RolloutStarted = workloadVersions'[k].RolloutStarted
        /\ rec.LastSentAt = now
        /\ loadFullRolloutStateFromCRD(k)' =
              [RolloutStarted |-> workloadVersions'[k].RolloutStarted,
               LastSentVersion |-> lastPass'.version,
               LastSentPhase |-> lastPass'.phase,
               LastSentAt |-> now]
        /\ \A n \in StateNames \ {StateName(k)} : crd'[n] = crd[n]

\* C15: every pass that sends an update, and every pass that starts the
\* rollout timer, calls the save; with a store that works the save leaves,
\* whether the record existed or not, the record of the key with Version and
\* LastSentVersion = the label, LastSentPhase = the resolved phase,
\* RolloutStarted = the in-memory rollout start and LastSentAt = now, and a
\* load of the key returns these values.
C15_UpsertOnEmit ==
    [][\A k \in AllKeys :
          /\ (PassStep(k) /\ lastPass'.event # NoEvent) => lastPass'.saveCalled
          /\ (PassStep(k) /\ lastPass'.outcome \in {"emitted", "quiet"}
              /\ lastPass'.phase = phaseRollingOut /\ lastPass'.timer = 0)
                => lastPass'.saveCalled
          /\ (PassStep(k) /\ lastPass'.saveCalled) => PersistedAsResolved(k)]_vars

\* A pass sent the update of a version change and replaced the record that
\* held the version before.
C15_Witness ==
    /\ lastPass.outcome = "emitted"
    /\ lastPass.event.PreviousVersion # ""
    /\ lastPass.event.PreviousVersion # lastPass.version
    /\ crd[StateName(lastPass.key)].exists
    /\ crd[StateName(lastPass.key)].LastSentVersion = lastPass.version
    /\ crd[StateName(lastPass.key)].LastSentPhase = lastPass.phase
    /\ crd[StateName(lastPass.key)].LastSentAt = now
    /\ now > 1

\* The step is a pass of key k whose save was called and did not leave the
\* record of the key as the pass resolved it: the write failed.
FailedWriteStep(k) ==
    /\ PassStep(k)
    /\ lastPass'.saveCalled
    /\ ~PersistedAsResolved(k)

\* C16: a pass whose write to the store fails goes on as a pass whose write
\* succeeds: the in-memory entry holds the version and the phase the pass
\* resolved, a pass that publishes hands its update to the send, and the
\* pass ends with the result of its phase (requeue while rolling out, no
\* error).
C16_FailedWriteContinues ==
    [][\A k \in AllKeys :
          FailedWriteStep(k) =>
             /\ lastPass'.requeue = RequeueFor(lastPass'.phase)
             /\ crd' = crd
             /\ lastPass'.outcome = "emitted" =>
                   /\ workloadVersions'[k].CurrentVersion = lastPass'.version
                   /\ workloadPhases'[k] = lastPass'.phase
                   /\ lastPass'.event # NoEvent
                   /\ lastPass'.event.CurrentVersion = lastPass'.version
                   /\ lastPass'.event.DeploymentPhase = lastPass'.phase
                   /\ lastPass'.event.PreviousVersion = workloadVersions'[k].PreviousVersion
                   /\ sending'[k] = lastPass'.event
                   /\ passPc'[k] = "send"]_vars

\* The update of a pass whose write failed is in the hands of the publisher
\* loop: the record still holds another version than the in-memory entry.
C16_Witness ==
    /\ lastPass.outcome = "emitted"
    /\ lastPass.saveCalled
    /\ crd[StateName(lastPass.key)].exists
    /\ crd[StateName(lastPass.key)].LastSentVersion # lastPass.version
    /\ workloadVersions[lastPass.key].CurrentVersion = lastPass.version
    /\ workloadPhases[lastPass.key] = lastPass.phase
    /\ consumerCur = lastPass.event

\* C17: within one process every pass decides from the in-memory entry and
\* the object it read, whatever the record holds: a pass that finds another
\* version or another phase than the in-memory entry holds sends its update,
\* the pass resolves its phase with the in-memory rollout timer, and a pass
\* that leaves the version and the phase as they are sends nothing.
C17_InMemoryAuthoritative ==
    [][\A k \in AllKeys :
          LabelledPassStep(k) =>
             /\ workloadVersions[k].CurrentVersion # lastPass'.version
                   => lastPass'.event # NoEvent
             /\ workloadPhases[k] # lastPass'.phase
                   => lastPass'.event # NoEvent
             /\ lastPass'.timer = workloadVersions[k].RolloutStarted
             /\ (/\ workloadVersions[k].CurrentVersion = lastPass'.version
                 /\ workloadPhases[k] = lastPass'.phase)
                   => lastPass'.event = NoEvent]_vars

\* The step is a pass of key k that found no workload object.
NotFoundStep(k) ==
    /\ PassStep(k)
    /\ lastPass'.outcome = "deleted"

\* C18: a pass that finds no workload object leaves the store without the
\* record of its key, whether there was one or not, and with every other
\* record as it was; it sends no update, and it ends without a requeue.
C18_NotFoundDeletesRecord ==
    [][\A k \in AllKeys :
          NotFoundStep(k) =>
             /\ crd'[StateName(k)] = NoRecord
             /\ \A n \in StateNames \ {StateName(k)} : crd'[n] = crd[n]
             /\ lastPass'.event = NoEvent
             /\ lastPass'.requeue = 0
             /\ UNCHANGED <<sending, passPc, publisherChan, gauge>>]_vars

\* A workload that was reconciled, and whose update went out, is gone: its
\* record is gone with it.
C18_Witness ==
    /\ lastPass.outcome = "deleted"
    /\ workloadVersions[lastPass.key].CurrentVersion # ""
    /\ crd[StateName(lastPass.key)] = NoRecord
    /\ PipelineIdle

\* C19: a pass that finds no workload object leaves no in-memory entry of
\* its key, and the next pass of the key on a labelled object is the pass of
\* a workload seen for the first time: it sends an update without previous
\* version and starts from no rollout timer.
C19_NotFoundDropsEntry ==
    [][\A k \in AllKeys :
          /\ NotFoundStep(k) =>
                /\ workloadVersions'[k] = ZeroAppVersion
                /\ workloadPhases'[k] = ""
          /\ (lastPass.outcome = "deleted" /\ lastPass.key = k /\ LabelledPassStep(k)) =>
                /\ lastPass'.event # NoEvent
                /\ lastPass'.event.PreviousVersion = ""
                /\ lastPass'.timer = 0]_vars

\* The in-memory rollout timer of key k runs exactly when the cached phase
\* of the key is rolling_out.
TimerRunsWhileRollingOut(k) ==
    workloadVersions[k].RolloutStarted # 0 <=> workloadPhases[k] = phaseRollingOut

\* C20: after every step the in-memory RolloutStarted of a key is non-zero
\* exactly when its cached phase is rolling_out; a pass that resolves
\* rolling_out with no timer recorded sets it to the time of the pass, a pass
\* that resolves rolling_out with a timer recorded keeps that timer, also
\* when the version changes, and a pass that resolves another phase leaves
\* it zero.
C20_TimerIffRollingOut ==
    [][\A k \in AllKeys :
          /\ TimerRunsWhileRollingOut(k)'
          /\ LabelledPassStep(k) =>
                /\ workloadPhases'[k] = lastPass'.phase
                /\ (lastPass'.phase = phaseRollingOut /\ lastPass'.timer = 0)
                      => workloadVersions'[k].RolloutStarted = now
                /\ (lastPass'.phase = phaseRollingOut /\ lastPass'.timer # 0)
                      => /\ workloadVersions'[k].RolloutStarted = lastPass'.timer
                         /\ workloadVersions[k].RolloutStarted \in {0, lastPass'.timer}
                /\ lastPass'.phase # phaseRollingOut
                      => workloadVersions'[k].RolloutStarted = 0]_vars

\* C21: a pass on a labelled workload asks to be run again after one minute
\* exactly when it resolved rolling_out, whether it sent its update, found
\* nothing to send or was stopped by the deduplication guard; a pass that
\* resolved any other phase asks for no requeue.
C21_RequeueIffRollingOut ==
    [][\A k \in AllKeys :
          LabelledPassStep(k) =>
             /\ lastPass'.phase \in Phases
             /\ lastPass'.requeue \in {0, RequeueAfterMinutes}
             /\ lastPass'.requeue = RequeueAfterMinutes <=> lastPass'.phase = phaseRollingOut]_vars

\* A pass stopped by the deduplication guard resolved rolling_out and asked
\* for its requeue.
C21_Witness ==
    /\ lastPass.outcome = "suppressed"
    /\ lastPass.phase = phaseRollingOut
    /\ lastPass.requeue = RequeueAfterMinutes

\* The rollout of key k started early enough for its timeout to fall within
\* the time modelled.
TimeoutWithinHorizon(k) ==
    /\ workloadPhases[k] = phaseRollingOut
    /\ workloadVersions[k].RolloutStarted # 0
    /\ workloadVersions[k].RolloutStarted + RolloutTimeout < MaxTime

\* An update of key k with phase failed was sent on publisherChan.
FailedEnqueued(k) ==
    \E i \in 1..Len(emitted) :
        /\ emitted[i].DeploymentPhase = phaseFailed
        /\ emitted[i].Kind = k.kind
        /\ emitted[i].Name = k.name
        /\ emitted[i].Namespace = k.namespace

\* C22: a workload that entered rolling_out and stays rolling out, without
\* reported failure and without further watch notification, is resolved to
\* failed by a requeued pass, and the update with phase failed is sent on
\* publisherChan.
C22_TimeoutLiveness ==
    \A k \in AllKeys : TimeoutWithinHorizon(k) ~> FailedEnqueued(k)

\* A requeued pass found the rollout still going on after the timeout,
\* resolved failed, and its update is on its way.
C22_Witness ==
    /\ lastPass.outcome = "emitted"
    /\ lastPass.phase = phaseFailed
    /\ lastPass.isRollingOut
    /\ ~lastPass.hasFailed
    /\ lastPass.timer # 0
    /\ now - lastPass.timer > RolloutTimeout
    /\ FailedEnqueued(lastPass.key)

\* C23: the store calls of a pass for one key leave what a load returns for
\* every other key as it was, and a pass for a key that has no record of its
\* own loads none.
C23_RecordPerKey ==
    [][\A k \in DashedKeys :
          (lastPass' # lastPass /\ lastPass'.outcome # "none" /\ lastPass'.key = k) =>
             \A j \in DashedKeys \ {k} :
                loadFullRolloutStateFromCRD(j)' = loadFullRolloutStateFromCRD(j)]_vars

\* C24: the gauge never carries more than one series with the labels of a
\* key; a step of the pass of one key leaves the series of every other key
\* as they are; and the new series is created by the call that follows the
\* deletion of the old ones.
C24_AtMostOneSeries ==
    [][\A k \in AllKeys :
          /\ Cardinality(SeriesOf(k)') <= 1
          /\ passPc'[k] # passPc[k] =>
                \A j \in AllKeys \ {k} : SeriesOf(j)' = SeriesOf(j)
          /\ SeriesOf(k)' # SeriesOf(k) =>
                \/ passPc[k] = "delete" /\ SeriesOf(k)' = {}
                \/ passPc[k] = "set" /\ SeriesOf(k) = {}]_vars

\* The gauge carries one series for each of the three kinds, that of the
\* Deployment written by its second refresh while a StatefulSet refresh is
\* under way.
C24_Witness ==
    /\ \A k \in AllKeys : Cardinality(SeriesOf(k)) = 1
    /\ \E k \in AllKeys : /\ k.kind = "Deployment"
                          /\ passPc[k] = "idle"
                          /\ workloadVersions[k].PreviousVersion # ""
    /\ \E k \in AllKeys : k.kind = "StatefulSet" /\ passPc[k] = "delete"

\* C25 as stated: once a key has changed version and its series was
\* written, the gauge carries exactly one series for the key in every state,
\* the states between the two calls of a refresh included.
C25_ExactlyOneAlways ==
    \A k \in AllKeys :
       workloadVersions[k].PreviousVersion # "" => Cardinality(SeriesOf(k)) = 1

\* C25, corrected: for a key that has changed version, the gauge carries
\* exactly one series, with the versions of the in-memory entry, whenever no
\* refresh of the key is under way; before the deletion of a refresh it
\* still carries the series of the version before, if there was one, and
\* between the deletion and the creation it carries none. It never carries
\* two.
C25_ExactlyOneOutsideRefresh ==
    \A k \in AllKeys :
       workloadVersions[k].CurrentVersion # "" =>
          /\ passPc[k] = "idle" =>
                \E t \in 1..now :
                   SeriesOf(k) = {Series(k, workloadVersions[k].PreviousVersion,
                                         workloadVersions[k].CurrentVersion, t)}
          /\ passPc[k] = "delete" =>
                Cardinality(SeriesOf(k)) =
                   IF workloadVersions[k].PreviousVersion = "" THEN 0 ELSE 1
          /\ passPc[k] = "set" => SeriesOf(k) = {}

\* A key that had its series is between the two calls of its next refresh
\* and has none, while another key carries its one series.
C25_Witness ==
    /\ \E k \in AllKeys : /\ workloadVersions[k].PreviousVersion # ""
                          /\ passPc[k] = "set"
                          /\ SeriesOf(k) = {}
    /\ \E k \in AllKeys : /\ workloadVersions[k].PreviousVersion # ""
                          /\ passPc[k] = "idle"
                          /\ Cardinality(SeriesOf(k)) = 1


\* The pass of key j can take the step that asks for the lock.
CanProceed(j) == ENABLED (PassMove(j) /\ Quiet /\ ResourceQuiet)

\* C26: a pass never holds the lock of the maps while it is in a call of the
\* store, of the gauge or of the channel; so when the only passes in flight
\* besides j are inside such calls (blocked on a full channel included), the
\* pass of another key j that asks for the lock gets it.
C26_NoLockAcrossCalls ==
    /\ \A k \in AllKeys : passPc[k] \in CallPcs => ~Holds(k)
    /\ \A j \in AllKeys :
          (/\ j \in watched
           /\ passPc[j] \in LockPcs
           /\ \A k \in AllKeys \ {j} : passPc[k] \in CallPcs \cup {"idle"})
          => CanProceed(j)

C26_Witness ==
    \E k, j \in AllKeys :
        /\ k # j
        /\ passPc[k] = "blocked"
        /\ Len(publisherChan) = QueueCap
        /\ Hold(j, "w") \in wrMu


\* C27: when the process is shut down from outside, the batching loop has
\* flushed what its buffer held and the per-event loop has finished the update
\* it was publishing: the process that has exited holds no buffered event, no
\* batch half published and no update half published.
C27_ShutdownDrains ==
    loopPc = "exited" =>
        /\ buffer = <<>>
        /\ flushEvents = <<>>
        /\ consumerCur = NoEvent


\* The payload that the step passes to a publisher.
PayloadOf(p) == delivered'[p][Len(delivered'[p])].Data

\* C28: in the externalized event the phase is PROGRESSING for rolling_out,
\* COMPLETED for success, FAILED for failed and absent for every other
\* internal phase (progressing and the empty phase included); the outcome is
\* SUCCEEDED exactly when the phase is COMPLETED, FAILED exactly when it is
\* FAILED, and absent otherwise.
C28_PhaseAndOutcome ==
    [][\A p \in Publishers :
          delivered'[p] # delivered[p] =>
              LET internal == consumerCur.DeploymentPhase
                  event == PayloadOf(p)
              IN  /\ internal = "rolling_out" => event.Phase = "PROGRESSING"
                  /\ internal = "success" => event.Phase = "COMPLETED"
                  /\ internal = "failed" => event.Phase = "FAILED"
                  /\ internal \notin {"rolling_out", "success", "failed"}
                        => event.Phase = Absent
                  /\ event.Outcome = "SUCCEEDED" <=> event.Phase = "COMPLETED"
                  /\ event.Outcome = "FAILED" <=> event.Phase = "FAILED"
                  /\ event.Outcome \in {"SUCCEEDED", "FAILED", Absent}]_vars

C28_Witness ==
    /\ consumerCur # NoEvent
    /\ consumerCur.DeploymentPhase = "progressing"
    /\ delivered[1] # <<>>
    /\ delivered[1][1].Data.Phase = Absent
    /\ delivered[1][1].Data.Outcome = Absent


\* The message that the step passes to the transport.
MessageOf(p) == delivered'[p][Len(delivered'[p])]

\* C29: every message the ordered pub/sub publisher publishes carries the
\* cluster identity as its ordering key, so that all the events of a cluster
\* share one ordering key.
C29_ClusterOrderingKey ==
    [][\A p \in Publishers :
          delivered'[p] # delivered[p] => MessageOf(p).OrderingKey = <<clusterID>>]_vars


\* HasFailed() was read on an object.
AdapterRead == lastPass.outcome = "adapter"

\* C30, as stated: HasFailed() is true only when the resource reports that the
\* progress deadline was exceeded, and false for every StatefulSet and
\* DaemonSet.
C30_OnlyDeadlineExceeded ==
    AdapterRead =>
        /\ lastPass.hasFailed =>
               lastPass.object.progressing.reason = "ProgressDeadlineExceeded"
        /\ lastPass.key.kind \in {"StatefulSet", "DaemonSet"} => ~lastPass.hasFailed

\* C30, as the code has it: HasFailed() is true only when a Deployment reports
\* a Progressing condition whose status is False, whatever its reason, or whose
\* reason is ProgressDeadlineExceeded; it is false for every StatefulSet and
\* DaemonSet, whatever conditions the status carries.
C30_OnlyProgressingFailure ==
    AdapterRead =>
        /\ lastPass.hasFailed =>
               /\ lastPass.key.kind = "Deployment"
               /\ \/ lastPass.object.progressing.status = "False"
                  \/ lastPass.object.progressing.reason = "ProgressDeadlineExceeded"
        /\ lastPass.key.kind \in {"StatefulSet", "DaemonSet"} => ~lastPass.hasFailed

C30_Witness ==
    /\ AdapterRead
    /\ lastPass.hasFailed
    /\ lastPass.object.progressing.reason = "ReplicaSetCreateError"

\* IsRollingOut() was read on an object.
RollingOutRead == lastPass.outcome = "rollingOut"

\* The updated count or the ready count of object o is below count n.
Behind(o, n) == o.updated < n \/ o.ready < n

\* C31, as stated: IsRollingOut() is true exactly when the updated or the ready
\* count is below the desired count, which is the declared replica count for a
\* Deployment and a StatefulSet and the scheduled-node count for a DaemonSet.
C31_BehindDeclared ==
    (RollingOutRead /\ (lastPass.key.kind = "DaemonSet"
                        \/ lastPass.object.specReplicas # NilReplicas)) =>
        LET o == lastPass.object
            desired == IF o.kind = "DaemonSet" THEN o.replicas ELSE o.specReplicas
        IN  lastPass.isRollingOut <=> Behind(o, desired)

\* C31, as the code has it: IsRollingOut() is true exactly when the updated or
\* the ready count is below the count of replicas that the status of a
\* Deployment reports, below the declared replica count of a StatefulSet
\* (never, when none is declared), below the desired scheduled-node count of a
\* DaemonSet.
C31_BehindReference ==
    RollingOutRead =>
        LET o == lastPass.object
        IN  lastPass.isRollingOut <=>
                CASE o.kind = "Deployment" -> Behind(o, o.replicas)
                  [] o.kind = "StatefulSet" ->
                        o.specReplicas # NilReplicas /\ Behind(o, o.specReplicas)
                  [] o.kind = "DaemonSet" -> Behind(o, o.replicas)

C31_Witness ==
    /\ RollingOutRead
    /\ lastPass.key.kind = "Deployment"
    /\ lastPass.object.specReplicas > lastPass.object.replicas
    /\ lastPass.object.updated = lastPass.object.replicas
    /\ lastPass.object.ready = lastPass.object.replicas
    /\ ~lastPass.isRollingOut

\* The filter decided on an event.
Filtered == lastPass.outcome = "filtered"

\* The filter decided on an update of two objects of its own kind.
FilteredUpdate ==
    /\ Filtered
    /\ lastPass.event.type = "update"
    /\ lastPass.event.old.kind = lastPass.key.kind
    /\ lastPass.event.new.kind = lastPass.key.kind

\* The condition of type t of object o, NoCondition when it carries none.
ConditionOfType(o, t) ==
    IF t = "Available" THEN o.availableCond ELSE o.progressing

\* Old and new object differ in a status field relevant to the rollout: a
\* replica or scheduled counter, the observed generation and, for a
\* Deployment, the number of conditions or the status or reason of the
\* condition of a type.
RelevantStatusDiffers(old, new) ==
    \/ <<old.replicas, old.updated, old.ready, old.available>>
          # <<new.replicas, new.updated, new.ready, new.available>>
    \/ old.kind # "Deployment" /\ old.current # new.current
    \/ old.kind = "DaemonSet" /\ old.unavailable # new.unavailable
    \/ old.observedGeneration # new.observedGeneration
    \/ /\ old.kind = "Deployment"
       /\ \/ Len(Conditions(old)) # Len(Conditions(new))
          \/ \E t \in {"Available", "Progressing"} :
                ConditionOfType(old, t) # ConditionOfType(new, t)

\* C32: the update predicate of each kind returns true exactly when old and
\* new object differ in Generation or in a status field relevant to the
\* rollout; it returns false for a change of labels only, and true for every
\* create, delete and generic event and for objects of an unexpected type.
C32_PredicateIffRelevantChange ==
    /\ FilteredUpdate =>
          (lastPass.passed <=>
              \/ lastPass.event.old.generation # lastPass.event.new.generation
              \/ RelevantStatusDiffers(lastPass.event.old, lastPass.event.new))
    /\ (FilteredUpdate
        /\ [lastPass.event.new EXCEPT !.version = lastPass.event.old.version]
              = lastPass.event.old) => ~lastPass.passed
    /\ (Filtered /\ ~FilteredUpdate) => lastPass.passed

C32_Witness ==
    /\ FilteredUpdate
    /\ lastPass.key.kind = "Deployment"
    /\ lastPass.event.old.generation = lastPass.event.new.generation
    /\ lastPass.event.old.observedGeneration # lastPass.event.new.observedGeneration
    /\ [lastPass.event.new EXCEPT !.observedGeneration = 1] = lastPass.event.old
    /\ lastPass.passed

\* C36: every update that changes the version label passes the update
\* predicate, also when neither the Generation nor a status field changes.
C36_VersionChangePasses ==
    (FilteredUpdate /\ lastPass.event.old.version # lastPass.event.new.version)
        => lastPass.passed

\* C37: whenever the predicate of a kind returns false for an update,
\* HasFailed(), IsRollingOut() and the ready, updated and total replica counts
\* of the adapter are the same for the old and the new object.
C37_FilteredKeepsPhaseInputs ==
    (FilteredUpdate /\ ~lastPass.passed) =>
        LET old == lastPass.event.old
            new == lastPass.event.new
        IN  /\ HasFailed(old) = HasFailed(new)
            /\ IsRollingOut(old) = IsRollingOut(new)
            /\ GetReadyReplicas(old) = GetReadyReplicas(new)
            /\ GetUpdatedReplicas(old) = GetUpdatedReplicas(new)
            /\ GetTotalReplicas(old) = GetTotalReplicas(new)

C37_Witness ==
    /\ FilteredUpdate
    /\ ~lastPass.passed
    /\ lastPass.key.kind = "StatefulSet"
    /\ lastPass.event.old.version # lastPass.event.new.version

\* The indexes of the providers of the list that detect their platform.
Detecting(providers) == {i \in 1..Len(providers) : providers[i].detect}

\* The least element of a non-empty set of indexes.
First(indexes) == CHOOSE i \in indexes : \A j \in indexes : i <= j

\* C33: Resolve returns the result of the first registered provider whose
\* Detect succeeds, and ErrNoProviderDetected when no provider is registered
\* or none detects; DetectProvider returns the name of that provider, or
\* ProviderUnknown when none detects.
C33_FirstDetectingProvider ==
    lastPass.outcome = "resolved" =>
        LET providers == lastPass.providers
        IN  IF Detecting(providers) = {}
            THEN /\ lastPass.resolved.err = ErrNoProviderDetected
                 /\ lastPass.resolved.info = Absent
                 /\ lastPass.detected = ProviderUnknown
            ELSE /\ lastPass.resolved = providers[First(Detecting(providers))].resolve
                 /\ lastPass.detected = providers[First(Detecting(providers))].name

C33_Witness ==
    /\ lastPass.outcome = "resolved"
    /\ Len(lastPass.providers) = MaxProviders
    /\ Detecting(lastPass.providers) = 1..MaxProviders
    /\ lastPass.providers[1].resolve # lastPass.providers[MaxProviders].resolve
    /\ lastPass.resolved = lastPass.providers[1].resolve

\* The most recent pass resolved key k to failed on the timeout: the object was
\* rolling out and reported no failure.
TimedOut(k) ==
    /\ lastPass.outcome \in {"suppressed", "emitted", "quiet"}
    /\ lastPass.key = k
    /\ lastPass.phase = phaseFailed
    /\ lastPass.isRollingOut
    /\ ~lastPass.hasFailed

\* C34: once the timeout has resolved a workload to failed, the next pass that
\* still reads IsRollingOut() resolves it to failed as well: the phase does
\* not go back to rolling_out and the budget is not started again.
C34_TimedOutStaysFailed ==
    [][\A k \in AllKeys :
          (TimedOut(k) /\ LabelledPassStep(k) /\ lastPass'.isRollingOut)
              => lastPass'.phase = phaseFailed]_vars

\* The store marks (version, phase) as sent for key k.
MarkedSent(k, version, phase) ==
    /\ crd[StateName(k)].exists
    /\ crd[StateName(k)].LastSentVersion = version
    /\ crd[StateName(k)].LastSentPhase = phase

\* An update of key k with (version, phase) was sent on publisherChan.
WasSent(k, version, phase) ==
    \E i \in 1..Len(emitted) :
        /\ emitted[i].Kind = k.kind
        /\ emitted[i].Namespace = k.namespace
        /\ emitted[i].Name = k.name
        /\ emitted[i].CurrentVersion = version
        /\ emitted[i].DeploymentPhase = phase

\* C35: an update the store marks as sent and that was never sent on
\* publisherChan (the process stopped between the save and the send) is sent by
\* the pass that computes the same version and phase again.
C35_UnsentIsEmitted ==
    [][\A k \in AllKeys :
          (/\ LabelledPassStep(k)
           /\ MarkedSent(k, lastPass'.version, lastPass'.phase)
           /\ ~WasSent(k, lastPass'.version, lastPass'.phase))
              => lastPass'.outcome = "emitted"]_vars

\* The updates emitted[i] and emitted[j] are consecutive updates of one workload.
ConsecutiveOfKey(i, j) ==
    /\ i < j
    /\ emitted[i].Kind = emitted[j].Kind
    /\ emitted[i].Namespace = emitted[j].Namespace
    /\ emitted[i].Name = emitted[j].Name
    /\ \A m \in (i + 1)..(j - 1) :
           \/ emitted[m].Kind # emitted[i].Kind
           \/ emitted[m].Namespace # emitted[i].Namespace
           \/ emitted[m].Name # emitted[i].Name

\* C38: of two consecutive updates sent for one workload, the later one names the
\* CurrentVersion of the earlier one as its PreviousVersion when the version
\* changed, and carries the PreviousVersion of the earlier one when only the
\* phase changed; restarts of the process between the two included.
C38_VersionChain ==
    \A i \in 1..Len(emitted) : \A j \in 1..Len(emitted) :
        ConsecutiveOfKey(i, j)
            => IF emitted[j].CurrentVersion # emitted[i].CurrentVersion
               THEN emitted[j].PreviousVersion = emitted[i].CurrentVersion
               ELSE emitted[j].PreviousVersion = emitted[i].PreviousVersion

\* A timer callback starts flushing a non-empty buffer.
TimerFlushStep == mu = "free" /\ mu' = "timer"

\* C39: a timer callback flushes the buffer only when the timer armed at the
\* first event of that buffer has expired; the callback of a timer armed for an
\* earlier batch does not flush the events of a later one.
C39_OwnTimerFlushes ==
    [][TimerFlushStep => timer = "expired"]_vars

\* The tracked fields of a saved pod or node state.
TrackedFields(resourceType, s) ==
    IF resourceType = "pod"
    THEN <<s.phase, s.ready, s.nodeName, s.restartCount>>
    ELSE <<s.ready, s.unschedulable, s.hasPressure, s.kubeletVersion>>

\* The step appends an event to resourceLog.
LoggedStep == Len(resourceLog') = Len(resourceLog) + 1

\* A StatusChange event is built only when a tracked field differs from the
\* saved state.
StatusChangeOnTrackedChange ==
    [][LET e == resourceLog'[Len(resourceLog')]
    IN  (LoggedStep /\ e.EventKind = ResourceEventKindStatusChange)
            => IF e.ResourceType = "pod"
               THEN /\ e.Ref \in DOMAIN podStates
                    /\ TrackedFields("pod", podStates[e.Ref])
                           # TrackedFields("pod", podStates'[e.Ref])
               ELSE /\ e.Ref \in DOMAIN nodeStates
                    /\ TrackedFields("node", nodeStates[e.Ref])
                           # TrackedFields("node", nodeStates'[e.Ref])]_vars

\* C40: within one process the pod and node reconcilers build a Deleted event of
\* a resource only after a Created event of it, and the first event of a resource
\* is Created: a resource that was never tracked (a pod the label filter
\* excludes) gets no Deleted event.
C40_TrackedLifecycle ==
    \A j \in 1..Len(resourceLog) :
        /\ resourceLog[j].EventKind = ResourceEventKindDeleted
               => \E i \in 1..(j - 1) :
                      /\ resourceLog[i].Ref = resourceLog[j].Ref
                      /\ resourceLog[i].ResourceType = resourceLog[j].ResourceType
                      /\ resourceLog[i].EventKind = ResourceEventKindCreated
        /\ (\A i \in 1..(j - 1) : resourceLog[i].Ref # resourceLog[j].Ref)
               => resourceLog[j].EventKind = ResourceEventKindCreated

====
